---- MODULE Spec2Model ----
(***************************************************************************)
(* Model of the HR-records service: the AI-assisted employee intake        *)
(* (createEmployee / createEmployeeRecordInHRMS), behind authenticateToken,*)
(* running concurrently with the account endpoints register / createUser   *)
(* on one relational store.  Every await of the handlers is a suspension   *)
(* point: one action of the model runs a handler from one await to the     *)
(* next.                                                                   *)
(***************************************************************************)
EXTENDS Integers, Sequences, FiniteSets, TLC

\* ---------------------------------------------------------------- bounds
NumIntake == 2    \* concurrent POST /employees requests
NumAccount == 1   \* concurrent register / createUser requests
MaxBatch == 2     \* longest array the extraction returns
MaxPieces == 6    \* longest model response, in pieces of text
MaxRows == 102    \* most rows a listed table holds

IntakeReqs == 1..NumIntake
AccountReqs == 1..NumAccount

\* ------------------------------------------------------------ value sets
Emails == {"john.doe@company.com", "jane.smith@company.com"}
StartDates == {"2025-09-01", "unknown"}
EmployeeData == [email : Emails, start_date : StartDates]
ActorIds == {2}

NoToken == [kind |-> "missing"]
BadToken == [kind |-> "invalid"]
GoodTokens == {[kind |-> "valid", userId |-> u] : u \in ActorIds}
Tokens == {NoToken, BadToken} \cup GoodTokens

\* req.body?.prompt: undefined, the empty string, or a text
Prompts == {"undefined", "", "Please create a record for John Doe"}

\* what ai.models.generateContent can come back with
RawKinds == {"ai.rejected", "ai.no_text", "ai.not_json", "ai.json_array",
             "ai.fenced_json_array"}
Unparseable == {"ai.rejected", "ai.no_text", "ai.not_json"}

NoRow == [id |-> 0]

RECURSIVE SeqsUpTo(_, _)
SeqsUpTo(S, n) ==
    IF n = 0 THEN {<<>>}
    ELSE LET shorter == SeqsUpTo(S, n - 1)
         IN shorter \cup {Append(s, x) : s \in {t \in shorter : Len(t) = n - 1}, x \in S}

Batches == SeqsUpTo(EmployeeData, MaxBatch)

\* ----------------------------------------------------------------- state
VARIABLES
    ai,            \* module-level client: "null" or "client"
    employees,     \* committed employee rows
    users,         \* committed account rows
    nextEmployeeId,
    nextUserId,
    mailbox,       \* mails the transport accepted
    logs,          \* what the logger was given
    history,       \* the intake requests already answered, as the client saw them
    pc,            \* intake request -> position in createEmployee
    request,       \* intake request -> the Authorization token and body.prompt
    userId,        \* intake request -> req.user?.userId (0: undefined)
    employeesData, \* intake request -> parsed array
    idx,           \* intake request -> loop position (1-based)
    hrmsResponses, \* intake request -> outcomes pushed so far
    plainPassword,
    hashedPassword,
    txEmployee,    \* intake request -> employee row pending in its transaction
    result,        \* intake request -> {employee, user} of the committed transaction
    response,      \* intake request -> HTTP response (status 0: none yet)
    calls,         \* intake request -> external calls made, in order
    apc,           \* account request -> position in register / createUser
    abody,         \* account request -> req.body
    ahash,         \* account request -> hashed password
    aresponse,     \* account request -> HTTP status (0: none yet)
    akind,         \* account request -> the handler it runs ("none": no request)
    atarget,       \* account request -> req.params.id of updateUser (0: none)
    issued,        \* the tokens login and register have handed out
    extraction,    \* a text handed to extractJsonFromMarkdown, and what it returned
    listing,       \* a list request on a table of some size, and the page it got
    JWT_SECRET     \* process.env.JWT_SECRET: "unset", "" or a secret

storeVars == <<employees, users, nextEmployeeId, nextUserId>>
intakeVars == <<pc, request, userId, employeesData, idx, hrmsResponses, plainPassword,
                hashedPassword, txEmployee, result, response, calls>>
accountVars == <<apc, abody, ahash, aresponse, akind, atarget, issued, JWT_SECRET>>
vars == <<ai, employees, users, nextEmployeeId, nextUserId, mailbox, logs,
          history, pc, request, userId, employeesData, idx, hrmsResponses, plainPassword,
          hashedPassword, txEmployee, result, response, calls,
          apc, abody, ahash, aresponse, akind, atarget, issued, JWT_SECRET,
          extraction, listing>>

\* A response has just been written and its request object is still alive:
\* res.json() and the end of the handler run in one turn of the event
\* loop, so no other handler runs until the request is released.
Quiet ==
    /\ \A r \in IntakeReqs : pc[r] # "replied"
    /\ \A u \in AccountReqs : apc[u] # "replied"

\* ------------------------------------------------------------ the store
\* variant: the lookup takes no notice of the email
findUnique_AnyEmail(rows, email) ==
    IF rows # {} THEN CHOOSE row \in rows : TRUE ELSE NoRow

\* findUnique({ where: { email } }) on a table: the row, or null (NoRow)
findUnique(rows, email) ==
    IF \E row \in rows : row.email = email
    THEN CHOOSE row \in rows : row.email = email
    ELSE NoRow

\* The unique index on employee.email: committed rows and rows pending in
\* an open transaction both hold their email.
EmployeeEmailTaken(email) ==
    \/ \E row \in employees : row.email = email
    \/ \E q \in IntakeReqs : txEmployee[q] # NoRow /\ txEmployee[q].email = email

\* A second insert of an email pending in another open transaction waits
\* for that transaction to end.
EmployeeInsertBlocked(r, email) ==
    \E q \in IntakeReqs \ {r} : txEmployee[q] # NoRow /\ txEmployee[q].email = email

\* The unique index on user.email
UserEmailTaken(email) == \E row \in users : row.email = email

\* new Date(start_date): a date, or Invalid Date
ParseDate(s) == IF s = "unknown" THEN "Invalid Date" ELSE s

\* Credentials: a plaintext, and bcryptjs.hash(plaintext, 10) of it.
\* Math.random makes every generated password a fresh value: the one
\* drawn by request r for its record i.
NoPassword == [form |-> "none", by |-> 0, n |-> 0]
RandomPassword(r, i) == [form |-> "plain", by |-> r, n |-> i]
GivenPassword(u) == [form |-> "plain", by |-> 0 - u, n |-> 0]
\* variant: the credential is stored as it is
NotHashed(p) == p
bcryptHash(p) == [form |-> "bcrypt", by |-> p.by, n |-> p.n]

\* ------------------------------------------------------- response shapes
IsSuccess(x) == x.hrms_api_status.status = "success"
IsPartialSuccess(x) == x.hrms_api_status.status = "partial_success"
IsEmailSent(x) == x.hrms_api_status.email_sent = "true"
IsSkipped(x) == x.hrms_api_status.status = "skipped"
IsError(x) == x.hrms_api_status.status = "error"

\* variant: successful_creations leaves the partial successes out
Summary_SuccessOnly(data, responses) ==
    [total_processed |-> Len(data),
     successful_creations |-> Len(SelectSeq(responses, IsSuccess)),
     emails_sent |-> Len(SelectSeq(responses, IsEmailSent)),
     skipped |-> Len(SelectSeq(responses, IsSkipped)),
     errors |-> Len(SelectSeq(responses, IsError))]

\* the summary of the 200 body: hrmsResponses.filter(...).length
Summary(data, responses) ==
    [total_processed |-> Len(data),
     successful_creations |->
         Len(SelectSeq(responses, IsSuccess)) + Len(SelectSeq(responses, IsPartialSuccess)),
     emails_sent |-> Len(SelectSeq(responses, IsEmailSent)),
     skipped |-> Len(SelectSeq(responses, IsSkipped)),
     errors |-> Len(SelectSeq(responses, IsError))]

OkBody(data, responses) ==
    [message |-> "Employees processed successfully",
     summary |-> Summary(data, responses),
     processed_employees |-> responses]

NoResponse == [status |-> 0]
NoRequest == [token |-> NoToken, prompt |-> "undefined"]
NoResult == [employee |-> 0, user |-> 0]

\* variant: the skip leaves the found employee's id out
SkippedOutcome_NoId(employee) ==
    [status |-> "skipped", message |-> "Employee already exists",
     reason |-> "", employee_id |-> 0, user_id |-> 0,
     email_sent |-> "undefined"]

\* the outcomes createEmployeeRecordInHRMS returns
SkippedOutcome(employee) ==
    [status |-> "skipped", message |-> "Employee already exists",
     reason |-> "", employee_id |-> employee.id, user_id |-> 0,
     email_sent |-> "undefined"]

UserExistsOutcome ==
    [status |-> "error", message |-> "User already exists",
     reason |-> "", employee_id |-> 0, user_id |-> 0, email_sent |-> "undefined"]

TransactionFailedOutcome(why) ==
    [status |-> "error", message |-> "Failed to create employee and user",
     reason |-> why, employee_id |-> 0, user_id |-> 0, email_sent |-> "undefined"]

SuccessOutcome(res) ==
    [status |-> "success", message |-> "Created. Welcome email sent.",
     reason |-> "", employee_id |-> res.employee, user_id |-> res.user,
     email_sent |-> "true"]

\* variant: the partial success reports the mail as sent
PartialSuccessOutcome_EmailSent(res) ==
    [status |-> "partial_success", message |-> "Created, but welcome email failed",
     reason |-> "Email sending failed", employee_id |-> res.employee,
     user_id |-> res.user, email_sent |-> "true"]

PartialSuccessOutcome(res) ==
    [status |-> "partial_success", message |-> "Created, but welcome email failed",
     reason |-> "Email sending failed", employee_id |-> res.employee,
     user_id |-> res.user, email_sent |-> "false"]

\* bookkeeping of the external calls a request makes: the operation, the
\* record it is for (0: none), and the row id it is about (0: none)
CallRec(op, i, id) == [op |-> op, i |-> i, id |-> id]
Made(r, made) == calls' = [calls EXCEPT ![r] = @ \o made]

\* the locals of one createEmployeeRecordInHRMS call
Locals(r, plain, hashed, pending, res) ==
    /\ plainPassword' = [plainPassword EXCEPT ![r] = plain]
    /\ hashedPassword' = [hashedPassword EXCEPT ![r] = hashed]
    /\ txEmployee' = [txEmployee EXCEPT ![r] = pending]
    /\ result' = [result EXCEPT ![r] = res]

SameLocals == UNCHANGED <<plainPassword, hashedPassword, txEmployee, result>>
NoLocals(r) == Locals(r, NoPassword, NoPassword, NoRow, NoResult)

\* res.status(code).json(body): the handler ends
Reply(r, code, body) ==
    /\ response' = [response EXCEPT ![r] = [status |-> code, body |-> body]]
    /\ pc' = [pc EXCEPT ![r] = "replied"]

\* variant: createEmployee without the prompt check
createEmployee_NoPromptCheck(r, uid, promptText) ==
    /\ userId' = [userId EXCEPT ![r] = uid]
    /\ IF ai = "null"
       THEN /\ Reply(r, 503, [error |-> "AI service is not available."])
            /\ calls' = calls
       ELSE /\ pc' = [pc EXCEPT ![r] = "generateContent"]
            /\ response' = response
            /\ calls' = [calls EXCEPT ![r] = @ \o <<CallRec("ai.generateContent", 0, 0)>>]

\* variant: createEmployee without the check of the ai client
createEmployee_NoAiCheck(r, uid, promptText) ==
    /\ userId' = [userId EXCEPT ![r] = uid]
    /\ IF promptText \in {"undefined", ""}
       THEN /\ Reply(r, 400, [error |-> "Missing 'prompt' field in request."])
            /\ calls' = calls
       ELSE /\ pc' = [pc EXCEPT ![r] = "generateContent"]
            /\ response' = response
            /\ calls' = [calls EXCEPT ![r] = @ \o <<CallRec("ai.generateContent", 0, 0)>>]

\* ------------------------------------------ extractJsonFromMarkdown
\* A text is a sequence of characters: the backtick ("tick"), whitespace
\* (" "), the word json (one symbol), and anything else ("x").  The texts tried are
\* made of pieces, so that fences come up often.
Pieces == {<<"tick">>, <<"tick", "tick", "tick">>, <<"json">>, <<" ">>, <<"x">>}

RECURSIVE Flatten(_)
Flatten(ps) == IF ps = <<>> THEN <<>> ELSE Head(ps) \o Flatten(Tail(ps))

Texts == {Flatten(ps) : ps \in SeqsUpTo(Pieces, MaxPieces)}

\* String.prototype.trim
RECURSIVE TrimStart(_)
TrimStart(s) == IF s # <<>> /\ Head(s) = " " THEN TrimStart(Tail(s)) ELSE s

RECURSIVE TrimEnd(_)
TrimEnd(s) ==
    IF s # <<>> /\ s[Len(s)] = " " THEN TrimEnd(SubSeq(s, 1, Len(s) - 1)) ELSE s

Trim(s) == TrimEnd(TrimStart(s))

\* The regular expression /```(?:json)?\s*([\s\S]*?)\s*```/, matched the
\* way the engine does it.  ``` at position p:
IsFenceAt(t, p) ==
    /\ p + 2 <= Len(t)
    /\ t[p] = "tick" /\ t[p + 1] = "tick" /\ t[p + 2] = "tick"

NoMatch == [found |-> FALSE, group |-> <<>>]

\* \s* taking all the whitespace there is from q on: where it ends
RECURSIVE SkipSpaces(_, _)
SkipSpaces(t, q) ==
    IF q <= Len(t) /\ t[q] = " " THEN SkipSpaces(t, q + 1) ELSE q

\* \s*``` matches at e
ClosesAt(t, e) == IsFenceAt(t, SkipSpaces(t, e))

\* ([\s\S]*?) from s, lazy: it ends at the first e where the rest matches
RECURSIVE LazyGroup(_, _, _)
LazyGroup(t, s, e) ==
    IF e > Len(t) + 1 THEN NoMatch
    ELSE IF ClosesAt(t, e) THEN [found |-> TRUE, group |-> SubSeq(t, s, e - 1)]
    ELSE LazyGroup(t, s, e + 1)

\* \s* after the opening, greedy: all the whitespace first, then giving
\* it back one by one down to q
RECURSIVE AfterOpening(_, _, _)
AfterOpening(t, q, s) ==
    LET m == LazyGroup(t, s, s)
    IN IF m.found \/ s <= q THEN m ELSE AfterOpening(t, q, s - 1)

\* the expression tried at position p: (?:json)? takes the tag when it is
\* there, and is tried without it when that fails
MatchAt(t, p) ==
    IF ~IsFenceAt(t, p) THEN NoMatch
    ELSE LET tagged == IF p + 3 <= Len(t) /\ t[p + 3] = "json"
                       THEN AfterOpening(t, p + 4, SkipSpaces(t, p + 4))
                       ELSE NoMatch
         IN IF tagged.found THEN tagged
            ELSE AfterOpening(t, p + 3, SkipSpaces(t, p + 3))

\* text.match(...): the leftmost position where the expression matches
RECURSIVE Match(_, _)
Match(t, p) ==
    IF p > Len(t) THEN NoMatch
    ELSE LET m == MatchAt(t, p)
         IN IF m.found THEN m ELSE Match(t, p + 1)

\* variant: the group is greedy and runs to the last closing fence
RECURSIVE GreedyGroup(_, _, _)
GreedyGroup(t, s, e) ==
    IF e < s THEN NoMatch
    ELSE IF ClosesAt(t, e) THEN [found |-> TRUE, group |-> SubSeq(t, s, e - 1)]
    ELSE GreedyGroup(t, s, e - 1)

RECURSIVE GreedyMatch(_, _)
GreedyMatch(t, p) ==
    IF p > Len(t) THEN NoMatch
    ELSE LET q == IF p + 3 <= Len(t) /\ t[p + 3] = "json" THEN p + 4 ELSE p + 3
             m == IF IsFenceAt(t, p)
                  THEN GreedyGroup(t, SkipSpaces(t, q), Len(t) + 1)
                  ELSE NoMatch
         IN IF m.found THEN m ELSE GreedyMatch(t, p + 1)

extractJsonFromMarkdown_Greedy(text) ==
    LET jsonMatch == GreedyMatch(text, 1)
    IN IF jsonMatch.found THEN Trim(jsonMatch.group) ELSE Trim(text)

extractJsonFromMarkdown(text) ==
    LET jsonMatch == Match(text, 1)
    IN IF jsonMatch.found THEN Trim(jsonMatch.group) ELSE Trim(text)

NoExtraction == [text |-> <<>>, done |-> FALSE, clean |-> <<>>]

\* cleanJsonString = extractJsonFromMarkdown(rawResponse)
ExtractJson ==
    /\ ~extraction.done
    /\ extraction' = [extraction EXCEPT !.done = TRUE,
                                        !.clean = extractJsonFromMarkdown(extraction.text)]
    /\ UNCHANGED <<ai, listing, storeVars, mailbox, logs, history, intakeVars,
                   accountVars>>

\* ------------------------------------- GET /employees and GET /users
\* req.query.page and req.query.limit: given or not, and the number given
DefaultPage == 1
DefaultLimit == 10
DocumentedMaxLimit == 100

NotGiven == [given |-> FALSE, value |-> 0]
Given(n) == [given |-> TRUE, value |-> n]
PagesAsked == {NotGiven, Given(1), Given(2)}
LimitsAsked == {NotGiven, Given(1), Given(10), Given(100), Given(101), Given(500)}

\* const { page = "1", limit = "10" } = req.query, then parseInt
pageNum(page) == IF page.given THEN page.value ELSE DefaultPage
limitNum(limit) == IF limit.given THEN limit.value ELSE DefaultLimit

\* the table's ids in the order of orderBy: { id: "desc" }
RowsDesc(count) == [i \in 1..count |-> count - i + 1]

\* findMany({ skip, take, orderBy }) on a table of count rows
findMany(count, skip, take) ==
    LET last == IF skip + take < count THEN skip + take ELSE count
    IN SubSeq(RowsDesc(count), skip + 1, last)

\* the data of the 200 of getEmployeesList and of getUsersList
ListPage(count, page, limit) ==
    findMany(count, (pageNum(page) - 1) * limitNum(limit), limitNum(limit))

NoListing ==
    [table |-> "none", count |-> 0, page |-> NotGiven, limit |-> NotGiven,
     done |-> FALSE, data |-> <<>>]

getEmployeesList ==
    /\ listing.table = "employee"
    /\ ~listing.done
    /\ listing' = [listing EXCEPT !.done = TRUE,
                                  !.data = ListPage(listing.count, listing.page, listing.limit)]
    /\ UNCHANGED <<ai, extraction, storeVars, mailbox, logs, history, intakeVars,
                   accountVars>>

getUsersList ==
    /\ listing.table = "user"
    /\ ~listing.done
    /\ listing' = [listing EXCEPT !.done = TRUE,
                                  !.data = ListPage(listing.count, listing.page, listing.limit)]
    /\ UNCHANGED <<ai, extraction, storeVars, mailbox, logs, history, intakeVars,
                   accountVars>>

\* ------------------------------------------------- POST /employees
\* createEmployee up to its first await: the prompt check, the ai check,
\* and the call of ai.models.generateContent
createEmployee(r, uid, promptText) ==
    /\ userId' = [userId EXCEPT ![r] = uid]
    /\ IF promptText \in {"undefined", ""}
       THEN /\ Reply(r, 400, [error |-> "Missing 'prompt' field in request."])
            /\ calls' = calls
       ELSE IF ai = "null"
       THEN /\ Reply(r, 503, [error |-> "AI service is not available."])
            /\ calls' = calls
       ELSE /\ pc' = [pc EXCEPT ![r] = "generateContent"]
            /\ response' = response
            /\ Made(r, <<CallRec("ai.generateContent", 0, 0)>>)

\* variant: a token that does not verify is let through without req.user
authenticateToken_LetsInvalidThrough(r, token, promptText) ==
    IF token.kind = "missing"
    THEN /\ Reply(r, 401, [error |-> "Access token missing"])
         /\ UNCHANGED <<userId, calls>>
    ELSE createEmployee(r, IF token.kind = "invalid" THEN 0 ELSE token.userId, promptText)

\* the middleware in front of the handler
authenticateToken(r, token, promptText) ==
    IF token.kind = "missing"
    THEN /\ Reply(r, 401, [error |-> "Access token missing"])
         /\ UNCHANGED <<userId, calls>>
    ELSE IF token.kind = "invalid"
    THEN /\ Reply(r, 401, [error |-> "Invalid or expired token"])
         /\ UNCHANGED <<userId, calls>>
    ELSE createEmployee(r, token.userId, promptText)

\* routes.post("/employees", authenticateToken, createEmployee)
PostEmployees(r) ==
    /\ Quiet
    /\ pc[r] = "idle"
    /\ \E token \in Tokens, promptText \in Prompts :
           /\ request' = [request EXCEPT ![r] = [token |-> token, prompt |-> promptText]]
           /\ authenticateToken(r, token, promptText)
    /\ SameLocals
    /\ UNCHANGED <<ai, extraction, listing, history, storeVars, mailbox, logs, employeesData, idx,
                   hrmsResponses, accountVars>>

\* the catch of createEmployee: 500 {error, details}
Catch500(r, details) ==
    Reply(r, 500, [error |-> "Error processing employee creation", details |-> details])

\* variant: the lookups of this record and of the next are started together
LoopFrom_NextTwoTogether(r, data, responses, i, made) ==
    /\ idx' = [idx EXCEPT ![r] = i]
    /\ IF i <= Len(data)
       THEN /\ pc' = [pc EXCEPT ![r] = "employee.findUnique"]
            /\ response' = response
            /\ Made(r, made \o <<CallRec("employee.findUnique", i, 0)>>
                            \o (IF i < Len(data)
                                THEN <<CallRec("employee.findUnique", i + 1, 0)>>
                                ELSE <<>>))
       ELSE /\ Reply(r, 200, OkBody(data, responses))
            /\ Made(r, made)

\* one turn of the for loop begins: createEmployeeRecordInHRMS is entered
\* and awaits prisma.employee.findUnique; after the last turn, the 200
LoopFrom(r, data, responses, i, made) ==
    /\ idx' = [idx EXCEPT ![r] = i]
    /\ IF i <= Len(data)
       THEN /\ pc' = [pc EXCEPT ![r] = "employee.findUnique"]
            /\ response' = response
            /\ Made(r, made \o <<CallRec("employee.findUnique", i, 0)>>)
       ELSE /\ Reply(r, 200, OkBody(data, responses))
            /\ Made(r, made)

\* variant: the outcome is put in front of the earlier ones (unshift)
Return_Unshift(r, outcome, made) ==
    LET pushed == <<[data |-> employeesData[r][idx[r]],
                     hrms_api_status |-> outcome]>> \o hrmsResponses[r]
    IN /\ hrmsResponses' = [hrmsResponses EXCEPT ![r] = pushed]
       /\ NoLocals(r)
       /\ LoopFrom(r, employeesData[r], pushed, idx[r] + 1, made)

\* createEmployeeRecordInHRMS returns: its locals are gone,
\* hrmsResponses.push({...employeeData, hrms_api_status}), the next turn
Return(r, outcome, made) ==
    LET pushed == Append(hrmsResponses[r],
                         [data |-> employeesData[r][idx[r]],
                          hrms_api_status |-> outcome])
    IN /\ hrmsResponses' = [hrmsResponses EXCEPT ![r] = pushed]
       /\ NoLocals(r)
       /\ LoopFrom(r, employeesData[r], pushed, idx[r] + 1, made)

\* an await outside the try of createEmployeeRecordInHRMS rejects: the
\* rejection leaves the loop and lands in the catch of createEmployee
Throw500(r, details) ==
    /\ Catch500(r, details)
    /\ NoLocals(r)
    /\ Made(r, <<CallRec(details, idx[r], 0)>>)
    /\ UNCHANGED <<idx, hrmsResponses>>

\* variant: a text that does not parse counts as an empty array
AfterGenerateContent_FallbackEmpty(r, raw, data) ==
    IF raw = "ai.rejected"
    THEN /\ Catch500(r, raw)
         /\ Made(r, <<CallRec(raw, 0, 0)>>)
         /\ UNCHANGED <<employeesData, idx>>
    ELSE LET parsed == IF raw \in Unparseable THEN <<>> ELSE data
         IN /\ employeesData' = [employeesData EXCEPT ![r] = parsed]
            /\ LoopFrom(r, parsed, <<>>, 1, <<CallRec(raw, 0, 0)>>)

\* generateContent resolves: the text is taken out of the response,
\* unfenced, parsed, and the loop starts
AfterGenerateContent(r, raw, data) ==
    IF raw \in Unparseable
    THEN /\ Catch500(r, raw)
         /\ Made(r, <<CallRec(raw, 0, 0)>>)
         /\ UNCHANGED <<employeesData, idx>>
    ELSE /\ employeesData' = [employeesData EXCEPT ![r] = data]
         /\ LoopFrom(r, data, <<>>, 1, <<CallRec(raw, 0, 0)>>)

GenerateContentResolves(r, raws, batches) ==
    /\ Quiet
    /\ pc[r] = "generateContent"
    /\ \E raw \in raws, data \in batches : AfterGenerateContent(r, raw, data)
    /\ SameLocals
    /\ UNCHANGED <<ai, extraction, listing, history, storeVars, mailbox, logs, request, userId,
                   hrmsResponses, accountVars>>

GenerateContentReturns(r) == GenerateContentResolves(r, RawKinds, Batches)

\* ------------------------------------- createEmployeeRecordInHRMS
Current(r) == employeesData[r][idx[r]]

\* variant: an existing employee is not skipped
AfterEmployeeLookup_NeverSkips(r, existingEmployee) ==
    /\ pc' = [pc EXCEPT ![r] = "user.findUnique"]
    /\ Made(r, <<CallRec("employee.null", idx[r], 0),
                 CallRec("user.findUnique", idx[r], 0)>>)
    /\ SameLocals
    /\ UNCHANGED <<idx, hrmsResponses, response>>

\* variant: the account is not looked up before the password is hashed
AfterEmployeeLookup_NoAccountLookup(r, existingEmployee) ==
    IF existingEmployee # NoRow
    THEN Return(r, SkippedOutcome(existingEmployee),
                <<CallRec("employee.found", idx[r], existingEmployee.id)>>)
    ELSE /\ Locals(r, RandomPassword(r, idx[r]), NoPassword, NoRow, NoResult)
         /\ pc' = [pc EXCEPT ![r] = "bcryptjs.hash"]
         /\ Made(r, <<CallRec("employee.null", idx[r], 0),
                      CallRec("generateRandomPassword", idx[r], 0),
                      CallRec("bcryptjs.hash", idx[r], 0)>>)
         /\ UNCHANGED <<idx, hrmsResponses, response>>

\* prisma.employee.findUnique resolved with existingEmployee: the skip,
\* or the await of prisma.user.findUnique
AfterEmployeeLookup(r, existingEmployee) ==
    IF existingEmployee # NoRow
    THEN Return(r, SkippedOutcome(existingEmployee),
                <<CallRec("employee.found", idx[r], existingEmployee.id)>>)
    ELSE /\ pc' = [pc EXCEPT ![r] = "user.findUnique"]
         /\ Made(r, <<CallRec("employee.null", idx[r], 0),
                      CallRec("user.findUnique", idx[r], 0)>>)
         /\ SameLocals
         /\ UNCHANGED <<idx, hrmsResponses, response>>

EmployeeFindUniqueReturns(r) ==
    /\ Quiet
    /\ pc[r] = "employee.findUnique"
    /\ \/ Throw500(r, "employee.findUnique.rejected")
       \/ AfterEmployeeLookup(r, findUnique(employees, Current(r).email))
    /\ UNCHANGED <<ai, extraction, listing, history, storeVars, mailbox, logs, request, userId, employeesData, accountVars>>

\* generateRandomPassword(): the password is drawn, logged, returned
generateRandomPassword(r, password) ==
    /\ logs' = logs \cup {[level |-> "info", text |-> "Generated password",
                           value |-> password]}
    /\ Locals(r, password, NoPassword, NoRow, NoResult)

\* variant: an existing account does not stop the provisioning
AfterUserLookup_IgnoresExisting(r, existingUser) ==
    /\ generateRandomPassword(r, RandomPassword(r, idx[r]))
    /\ pc' = [pc EXCEPT ![r] = "bcryptjs.hash"]
    /\ Made(r, <<CallRec(IF existingUser # NoRow THEN "user.found" ELSE "user.null",
                         idx[r], existingUser.id),
                 CallRec("generateRandomPassword", idx[r], 0),
                 CallRec("bcryptjs.hash", idx[r], 0)>>)
    /\ UNCHANGED <<idx, hrmsResponses, response>>

\* prisma.user.findUnique resolved with existingUser: the error, or the
\* password is generated and bcryptjs.hash awaited
AfterUserLookup(r, existingUser) ==
    IF existingUser # NoRow
    THEN /\ Return(r, UserExistsOutcome,
                   <<CallRec("user.found", idx[r], existingUser.id)>>)
         /\ logs' = logs
    ELSE /\ generateRandomPassword(r, RandomPassword(r, idx[r]))
         /\ pc' = [pc EXCEPT ![r] = "bcryptjs.hash"]
         /\ Made(r, <<CallRec("user.null", idx[r], 0),
                      CallRec("generateRandomPassword", idx[r], 0),
                      CallRec("bcryptjs.hash", idx[r], 0)>>)
         /\ UNCHANGED <<idx, hrmsResponses, response>>

UserFindUniqueReturns(r) ==
    /\ Quiet
    /\ pc[r] = "user.findUnique"
    /\ \/ /\ Throw500(r, "user.findUnique.rejected")
          /\ logs' = logs
       \/ AfterUserLookup(r, findUnique(users, Current(r).email))
    /\ UNCHANGED <<ai, extraction, listing, history, storeVars, mailbox, request, userId, employeesData, accountVars>>

\* bcryptjs.hash resolved: the transaction opens and tx.employee.create
\* is awaited
HashReturns(r) ==
    /\ Quiet
    /\ pc[r] = "bcryptjs.hash"
    /\ Locals(r, plainPassword[r], bcryptHash(plainPassword[r]), NoRow, NoResult)
    /\ pc' = [pc EXCEPT ![r] = "tx.employee.create"]
    /\ Made(r, <<CallRec("$transaction", idx[r], 0),
                 CallRec("tx.employee.create", idx[r], 0)>>)
    /\ UNCHANGED <<ai, extraction, listing, history, storeVars, mailbox, logs, request, userId, employeesData, idx,
                   hrmsResponses, response, accountVars>>

\* variant: created_by is always the fallback id
NewEmployee_AlwaysFallback(r) ==
    [id |-> nextEmployeeId,
     email |-> Current(r).email,
     joining_date |-> ParseDate(Current(r).start_date),
     status |-> "active",
     created_by |-> 1]

\* the data of tx.employee.create
NewEmployee(r) ==
    [id |-> nextEmployeeId,
     email |-> Current(r).email,
     joining_date |-> ParseDate(Current(r).start_date),
     status |-> "active",
     created_by |-> IF userId[r] # 0 THEN userId[r] ELSE 1]

\* the data of tx.user.create
NewUser(r) ==
    [id |-> nextUserId,
     email |-> Current(r).email,
     password |-> hashedPassword[r],
     role |-> "EMPLOYEE",
     employee_id |-> txEmployee[r].id]

\* variant: the outer catch reports the record as created
TransactionFails_ReportedAsSuccess(r, why) ==
    Return(r, SuccessOutcome(result[r]),
           <<CallRec(why, idx[r], 0), CallRec("rollback", idx[r], 0)>>)

\* the transaction throws: it is rolled back and the outer catch returns
\* the error outcome
TransactionFails(r, why) ==
    Return(r, TransactionFailedOutcome(why),
           <<CallRec(why, idx[r], 0), CallRec("rollback", idx[r], 0)>>)

\* variant: the employee is created by prisma.employee.create, outside
\* the transaction
TxEmployeeCreated_OutsideTx(r) ==
    /\ Locals(r, plainPassword[r], hashedPassword[r], NewEmployee(r), NoResult)
    /\ employees' = employees \cup {NewEmployee(r)}
    /\ pc' = [pc EXCEPT ![r] = "tx.user.create"]
    /\ Made(r, <<CallRec("employee.created", idx[r], NewEmployee(r).id),
                 CallRec("tx.user.create", idx[r], 0)>>)
    /\ UNCHANGED <<idx, hrmsResponses, response>>

\* tx.employee.create resolved: the row is pending in the transaction and
\* tx.user.create is awaited
TxEmployeeCreated(r) ==
    /\ Locals(r, plainPassword[r], hashedPassword[r], NewEmployee(r), NoResult)
    /\ employees' = employees
    /\ pc' = [pc EXCEPT ![r] = "tx.user.create"]
    /\ Made(r, <<CallRec("employee.created", idx[r], NewEmployee(r).id),
                 CallRec("tx.user.create", idx[r], 0)>>)
    /\ UNCHANGED <<idx, hrmsResponses, response>>

\* tx.employee.create resolves or rejects
TxEmployeeCreateReturns(r) ==
    /\ Quiet
    /\ pc[r] = "tx.employee.create"
    /\ ~EmployeeInsertBlocked(r, Current(r).email)
    /\ \/ /\ NewEmployee(r).joining_date = "Invalid Date"
          /\ TransactionFails(r, "Invalid value for argument joining_date")
          /\ UNCHANGED <<nextEmployeeId, employees>>
       \/ /\ NewEmployee(r).joining_date # "Invalid Date"
          /\ EmployeeEmailTaken(Current(r).email)
          /\ TransactionFails(r, "Unique constraint failed on the fields: (email)")
          /\ nextEmployeeId' = nextEmployeeId + 1
          /\ employees' = employees
       \/ /\ NewEmployee(r).joining_date # "Invalid Date"
          /\ TransactionFails(r, "Can't reach database server")
          /\ UNCHANGED <<nextEmployeeId, employees>>
       \/ /\ NewEmployee(r).joining_date # "Invalid Date"
          /\ ~EmployeeEmailTaken(Current(r).email)
          /\ TxEmployeeCreated(r)
          /\ nextEmployeeId' = nextEmployeeId + 1
    /\ UNCHANGED <<ai, extraction, listing, history, users, nextUserId, mailbox, logs, request, userId, employeesData,
                   accountVars>>

\* tx.user.create resolved and the callback returned: the transaction
\* commits both rows, and sendWelcomeEmail awaits transporter.sendMail
TransactionCommits(r) ==
    /\ employees' = employees \cup {txEmployee[r]}
    /\ users' = users \cup {NewUser(r)}
    /\ Locals(r, plainPassword[r], hashedPassword[r], NoRow,
              [employee |-> txEmployee[r].id, user |-> NewUser(r).id])
    /\ pc' = [pc EXCEPT ![r] = "sendMail"]
    /\ Made(r, <<CallRec("user.created", idx[r], NewUser(r).id),
                 CallRec("commit", idx[r], 0),
                 CallRec("sendMail", idx[r], 0)>>)
    /\ UNCHANGED <<idx, hrmsResponses, response>>

\* tx.user.create resolves or rejects
TxUserCreateReturns(r) ==
    /\ Quiet
    /\ pc[r] = "tx.user.create"
    /\ \/ /\ UserEmailTaken(Current(r).email)
          /\ TransactionFails(r, "Unique constraint failed on the fields: (email)")
          /\ nextUserId' = nextUserId + 1
          /\ UNCHANGED <<employees, users>>
       \/ /\ TransactionFails(r, "Can't reach database server")
          /\ UNCHANGED <<employees, users, nextUserId>>
       \/ /\ ~UserEmailTaken(Current(r).email)
          /\ TransactionCommits(r)
          /\ nextUserId' = nextUserId + 1
    /\ UNCHANGED <<ai, extraction, listing, history, nextEmployeeId, mailbox, logs, request, userId, employeesData,
                   accountVars>>

\* variant: the rejection of sendMail is not caught by an inner catch and
\* lands in the outer one
sendWelcomeEmail_Uncaught(r, delivered) ==
    IF delivered
    THEN /\ mailbox' = mailbox \cup {[to |-> Current(r).email,
                                      password |-> plainPassword[r]]}
         /\ Return(r, SuccessOutcome(result[r]),
                   <<CallRec("sendMail.resolved", idx[r], 0)>>)
    ELSE /\ mailbox' = mailbox
         /\ Return(r, TransactionFailedOutcome("Email sending failed"),
                   <<CallRec("sendMail.rejected", idx[r], 0)>>)

\* variant: a rejected sendMail is tried a second time
sendWelcomeEmail_TriesAgain(r, delivered) ==
    IF delivered
    THEN /\ mailbox' = mailbox \cup {[to |-> Current(r).email,
                                      password |-> plainPassword[r]]}
         /\ Return(r, SuccessOutcome(result[r]),
                   <<CallRec("sendMail.resolved", idx[r], 0)>>)
    ELSE IF \E j \in 1..Len(calls[r]) :
                calls[r][j].i = idx[r] /\ calls[r][j].op = "sendMail.rejected"
    THEN /\ mailbox' = mailbox
         /\ Return(r, PartialSuccessOutcome(result[r]),
                   <<CallRec("sendMail.rejected", idx[r], 0)>>)
    ELSE /\ mailbox' = mailbox
         /\ Made(r, <<CallRec("sendMail.rejected", idx[r], 0),
                      CallRec("sendMail", idx[r], 0)>>)
         /\ SameLocals
         /\ UNCHANGED <<pc, idx, hrmsResponses, response>>

\* transporter.sendMail resolves or rejects inside sendWelcomeEmail; the
\* rejection is rethrown and caught by the inner catch
sendWelcomeEmail(r, delivered) ==
    IF delivered
    THEN /\ mailbox' = mailbox \cup {[to |-> Current(r).email,
                                      password |-> plainPassword[r]]}
         /\ Return(r, SuccessOutcome(result[r]),
                   <<CallRec("sendMail.resolved", idx[r], 0)>>)
    ELSE /\ mailbox' = mailbox
         /\ Return(r, PartialSuccessOutcome(result[r]),
                   <<CallRec("sendMail.rejected", idx[r], 0)>>)

SendMailReturns(r) ==
    /\ Quiet
    /\ pc[r] = "sendMail"
    /\ \E delivered \in BOOLEAN : sendWelcomeEmail(r, delivered)
    /\ UNCHANGED <<ai, extraction, listing, history, storeVars, logs, request, userId, employeesData, accountVars>>

\* the response is out and the request object is released
Release(r) ==
    /\ pc[r] = "replied"
    /\ pc' = [pc EXCEPT ![r] = "done"]
    /\ request' = [request EXCEPT ![r] = NoRequest]
    /\ userId' = [userId EXCEPT ![r] = 0]
    /\ employeesData' = [employeesData EXCEPT ![r] = <<>>]
    /\ idx' = [idx EXCEPT ![r] = 0]
    /\ hrmsResponses' = [hrmsResponses EXCEPT ![r] = <<>>]
    /\ response' = [response EXCEPT ![r] = NoResponse]
    /\ calls' = [calls EXCEPT ![r] = <<>>]
    /\ SameLocals
    /\ UNCHANGED <<ai, extraction, listing, storeVars, mailbox, logs, accountVars>>

Released(r) == Release(r) /\ history' = history

\* the same, with the client keeping what it sent and what it was answered
ReleasedKept(r) ==
    /\ Release(r)
    /\ history' = Append(history, [data |-> employeesData[r],
                                   status |-> response[r].status,
                                   outcomes |-> hrmsResponses[r]])

\* the transaction of another POST /employees request, running the same
\* createEmployeeRecordInHRMS, commits its employee row and account row
ConcurrentProvision(email) ==
    /\ Quiet
    /\ ~EmployeeEmailTaken(email)
    /\ ~UserEmailTaken(email)
    /\ employees' = employees \cup {[id |-> nextEmployeeId, email |-> email,
                                     joining_date |-> "2025-09-01",
                                     status |-> "active", created_by |-> 1]}
    /\ users' = users \cup {[id |-> nextUserId, email |-> email,
                             password |-> bcryptHash(RandomPassword(0, nextUserId)),
                             role |-> "EMPLOYEE", employee_id |-> nextEmployeeId]}
    /\ nextEmployeeId' = nextEmployeeId + 1
    /\ nextUserId' = nextUserId + 1
    /\ UNCHANGED <<ai, extraction, listing, history, mailbox, logs, intakeVars, accountVars>>

\* ------------------------------------------------------------ the tokens
\* process.env.JWT_SECRET || default: the secret login and register sign
\* with, and the secret authenticateToken verifies with
JwtSecretSettings == {"unset", "", "s3cret"}
SignSecret == IF JWT_SECRET \in {"unset", ""} THEN "your-secret-key" ELSE JWT_SECRET
VerifySecret == IF JWT_SECRET \in {"unset", ""} THEN "MKX_SECRET_KEY" ELSE JWT_SECRET

\* jwt.sign({userId}, secret, {expiresIn: "24h"})
jwtSign(id, secret) == [kind |-> "jwt", userId |-> id, secret |-> secret]

\* jwt.verify(token, secret) at a time when the token has expired or not:
\* the decoded payload, or the throw that authenticateToken answers 401
jwtVerify(token, secret, expired) ==
    IF token.secret = secret /\ ~expired
    THEN [kind |-> "valid", userId |-> token.userId]
    ELSE BadToken

\* ------------------------------- POST /auth/register and POST /users
\* req.body of register / createUser: name, email, password ("": missing)
AccountBodies == [name : {"", "Ann"}, email : Emails \cup {""}, password : {"", "secret"}]

\* the handler up to its first await: the required fields, then
\* prisma.user.findUnique
AccountRequest(u, body) ==
    /\ Quiet
    /\ apc[u] = "idle"
    /\ abody' = [abody EXCEPT ![u] = body]
    /\ IF body.name = "" \/ body.email = "" \/ body.password = ""
       THEN /\ aresponse' = [aresponse EXCEPT ![u] = 400]
            /\ apc' = [apc EXCEPT ![u] = "replied"]
       ELSE /\ aresponse' = aresponse
            /\ apc' = [apc EXCEPT ![u] = "user.findUnique"]
    /\ UNCHANGED <<ai, extraction, listing, history, storeVars, mailbox, logs, intakeVars, ahash,
                   atarget, issued, JWT_SECRET>>

\* variant: an existing account does not stop the creation
AccountFindUniqueReturns_IgnoresExisting(u) ==
    /\ Quiet
    /\ apc[u] = "user.findUnique"
    /\ ahash' = [ahash EXCEPT ![u] = bcryptHash(GivenPassword(u))]
    /\ apc' = [apc EXCEPT ![u] = "user.create"]
    /\ UNCHANGED <<ai, extraction, listing, history, storeVars, mailbox, logs, intakeVars, abody,
                   aresponse, akind, atarget, issued, JWT_SECRET>>

\* findUnique resolved: the 409, or bcrypt.hash and then user.create awaited
AccountFindUniqueReturns(u) ==
    /\ Quiet
    /\ apc[u] = "user.findUnique"
    /\ IF findUnique(users, abody[u].email) # NoRow
       THEN /\ aresponse' = [aresponse EXCEPT ![u] = 409]
            /\ apc' = [apc EXCEPT ![u] = "replied"]
            /\ ahash' = ahash
       ELSE /\ ahash' = [ahash EXCEPT ![u] = bcryptHash(GivenPassword(u))]
            /\ apc' = [apc EXCEPT ![u] = "user.create"]
            /\ aresponse' = aresponse
    /\ UNCHANGED <<ai, extraction, listing, history, storeVars, mailbox, logs, intakeVars, abody,
                   akind, atarget, issued, JWT_SECRET>>

\* prisma.user.create resolves (the 201) or rejects (nothing catches it)
AccountCreateReturns(u) ==
    /\ Quiet
    /\ apc[u] = "user.create"
    /\ IF UserEmailTaken(abody[u].email)
       THEN /\ apc' = [apc EXCEPT ![u] = "rejected"]
            /\ UNCHANGED <<users, aresponse>>
       ELSE /\ users' = users \cup {[id |-> nextUserId,
                                     email |-> abody[u].email,
                                     password |-> ahash[u],
                                     role |-> "EMPLOYEE",
                                     employee_id |-> 0]}
            /\ aresponse' = [aresponse EXCEPT ![u] = 201]
            /\ apc' = [apc EXCEPT ![u] = "replied"]
    /\ issued' = IF akind[u] = "register" /\ ~UserEmailTaken(abody[u].email)
                 THEN issued \cup {jwtSign(nextUserId, SignSecret)}
                 ELSE issued
    /\ nextUserId' = nextUserId + 1
    /\ UNCHANGED <<ai, extraction, listing, history, employees, nextEmployeeId, mailbox, logs, intakeVars,
                   abody, ahash, akind, atarget, JWT_SECRET>>

\* createUser and register: the same steps; register also signs a token
createUser(u, body) ==
    /\ AccountRequest(u, body)
    /\ akind' = [akind EXCEPT ![u] = "createUser"]

register(u, body) ==
    /\ AccountRequest(u, body)
    /\ akind' = [akind EXCEPT ![u] = "register"]

\* POST /auth/login up to its first await
LoginBodies == [name : {""}, email : Emails \cup {""}, password : {"", "secret"}]

login(u, body) ==
    /\ Quiet
    /\ apc[u] = "idle"
    /\ abody' = [abody EXCEPT ![u] = body]
    /\ akind' = [akind EXCEPT ![u] = "login"]
    /\ IF body.email = "" \/ body.password = ""
       THEN /\ aresponse' = [aresponse EXCEPT ![u] = 400]
            /\ apc' = [apc EXCEPT ![u] = "replied"]
       ELSE /\ aresponse' = aresponse
            /\ apc' = [apc EXCEPT ![u] = "login.findUnique"]
    /\ UNCHANGED <<ai, extraction, listing, history, storeVars, mailbox, logs, intakeVars, ahash,
                   atarget, issued, JWT_SECRET>>

\* bcrypt.compare(password, user.password)
bcryptCompare(plain, hash) == hash = bcryptHash(plain)

\* findUnique resolved: the 401, or the token is signed and sent
LoginFindUniqueReturns(u) ==
    LET user == findUnique(users, abody[u].email)
        ok == IF user = NoRow THEN FALSE
              ELSE bcryptCompare(GivenPassword(u), user.password)
    IN /\ Quiet
       /\ apc[u] = "login.findUnique"
       /\ apc' = [apc EXCEPT ![u] = "replied"]
       /\ aresponse' = [aresponse EXCEPT ![u] = IF ok THEN 200 ELSE 401]
       /\ issued' = IF ok THEN issued \cup {jwtSign(user.id, SignSecret)} ELSE issued
       /\ UNCHANGED <<ai, extraction, listing, history, storeVars, mailbox, logs, intakeVars, abody, ahash,
                      akind, atarget, JWT_SECRET>>

\* PUT /users/:id up to its first await, prisma.user.findUnique by id
updateUser(u, id, body) ==
    /\ Quiet
    /\ apc[u] = "idle"
    /\ abody' = [abody EXCEPT ![u] = body]
    /\ akind' = [akind EXCEPT ![u] = "updateUser"]
    /\ atarget' = [atarget EXCEPT ![u] = id]
    /\ apc' = [apc EXCEPT ![u] = "update.findUnique"]
    /\ UNCHANGED <<ai, extraction, listing, history, storeVars, mailbox, logs, intakeVars, ahash,
                   aresponse, issued, JWT_SECRET>>

\* updateData is prepared: the password, if given, is hashed; then
\* prisma.user.update is awaited
PrepareUpdate(u) ==
    /\ ahash' = [ahash EXCEPT ![u] = IF abody[u].password # ""
                                     THEN bcryptHash(GivenPassword(u))
                                     ELSE NoPassword]
    /\ apc' = [apc EXCEPT ![u] = "user.update"]
    /\ aresponse' = aresponse

UpdateFindUniqueReturns(u) ==
    /\ Quiet
    /\ apc[u] = "update.findUnique"
    /\ IF \A row \in users : row.id # atarget[u]
       THEN /\ aresponse' = [aresponse EXCEPT ![u] = 404]
            /\ apc' = [apc EXCEPT ![u] = "replied"]
            /\ ahash' = ahash
       ELSE LET existingUser == CHOOSE row \in users : row.id = atarget[u]
            IN IF abody[u].email # "" /\ abody[u].email # existingUser.email
               THEN /\ apc' = [apc EXCEPT ![u] = "update.emailExists"]
                    /\ UNCHANGED <<ahash, aresponse>>
               ELSE PrepareUpdate(u)
    /\ UNCHANGED <<ai, extraction, listing, history, storeVars, mailbox, logs, intakeVars, abody,
                   akind, atarget, issued, JWT_SECRET>>

UpdateEmailExistsReturns(u) ==
    /\ Quiet
    /\ apc[u] = "update.emailExists"
    /\ IF findUnique(users, abody[u].email) # NoRow
       THEN /\ aresponse' = [aresponse EXCEPT ![u] = 409]
            /\ apc' = [apc EXCEPT ![u] = "replied"]
            /\ ahash' = ahash
       ELSE PrepareUpdate(u)
    /\ UNCHANGED <<ai, extraction, listing, history, storeVars, mailbox, logs, intakeVars, abody,
                   akind, atarget, issued, JWT_SECRET>>

\* the row prisma.user.update writes
UpdatedUser(u, row) ==
    [row EXCEPT !.email = IF abody[u].email # "" THEN abody[u].email ELSE @,
                !.password = IF abody[u].password # "" THEN ahash[u] ELSE @]

\* prisma.user.update resolves (the 200) or rejects on the unique index
UserUpdateReturns(u) ==
    LET row == CHOOSE x \in users : x.id = atarget[u]
    IN /\ Quiet
       /\ apc[u] = "user.update"
       /\ IF \E other \in users \ {row} : other.email = UpdatedUser(u, row).email
          THEN /\ apc' = [apc EXCEPT ![u] = "rejected"]
               /\ UNCHANGED <<users, aresponse>>
          ELSE /\ users' = (users \ {row}) \cup {UpdatedUser(u, row)}
               /\ aresponse' = [aresponse EXCEPT ![u] = 200]
               /\ apc' = [apc EXCEPT ![u] = "replied"]
       /\ UNCHANGED <<ai, extraction, listing, history, employees, nextEmployeeId, nextUserId, mailbox, logs,
                      intakeVars, abody, ahash, akind, atarget, issued, JWT_SECRET>>

\* the response is out and the request object is released
AccountEnds(u, then) ==
    /\ apc[u] \in {"replied", "rejected"}
    /\ apc' = [apc EXCEPT ![u] = then]
    /\ abody' = [abody EXCEPT ![u] = [name |-> "", email |-> "", password |-> ""]]
    /\ ahash' = [ahash EXCEPT ![u] = NoPassword]
    /\ aresponse' = [aresponse EXCEPT ![u] = 0]
    /\ akind' = [akind EXCEPT ![u] = "none"]
    /\ atarget' = [atarget EXCEPT ![u] = 0]
    /\ UNCHANGED <<ai, extraction, listing, history, storeVars, mailbox, logs, intakeVars, issued, JWT_SECRET>>

AccountReleased(u) == AccountEnds(u, "done")

\* the same, and the client sends its next request
AccountNext(u) == AccountEnds(u, "idle")

\* ------------------------------------------------------ specification
\* the store before anything was written
EmptyStore ==
    /\ employees = {}
    /\ users = {}
    /\ nextEmployeeId = 1
    /\ nextUserId = 1

\* the store after the seed script ran on it: the administrator's employee
\* row and account, the employee's created_by set to the account's id
\* bcrypt.hash("123456", 12)
SeedPassword == [form |-> "bcrypt", by |-> 0, n |-> 0]

SeededStore ==
    /\ employees = {[id |-> 1, email |-> "admin@mkx.com",
                     joining_date |-> "2025-09-01", status |-> "active",
                     created_by |-> 1]}
    /\ users = {[id |-> 1, email |-> "admin@mkx.com",
                 password |-> SeedPassword,
                 role |-> "ADMIN", employee_id |-> 1]}
    /\ nextEmployeeId = 2
    /\ nextUserId = 2

InitExceptStore ==
    /\ ai \in {"null", "client"}
    /\ mailbox = {}
    /\ logs = {}
    /\ history = <<>>
    /\ pc = [r \in IntakeReqs |-> "idle"]
    /\ request = [r \in IntakeReqs |-> NoRequest]
    /\ userId = [r \in IntakeReqs |-> 0]
    /\ employeesData = [r \in IntakeReqs |-> <<>>]
    /\ idx = [r \in IntakeReqs |-> 0]
    /\ hrmsResponses = [r \in IntakeReqs |-> <<>>]
    /\ plainPassword = [r \in IntakeReqs |-> NoPassword]
    /\ hashedPassword = [r \in IntakeReqs |-> NoPassword]
    /\ txEmployee = [r \in IntakeReqs |-> NoRow]
    /\ result = [r \in IntakeReqs |-> NoResult]
    /\ response = [r \in IntakeReqs |-> NoResponse]
    /\ calls = [r \in IntakeReqs |-> <<>>]
    /\ apc = [u \in AccountReqs |-> "idle"]
    /\ abody = [u \in AccountReqs |-> [name |-> "", email |-> "", password |-> ""]]
    /\ ahash = [u \in AccountReqs |-> NoPassword]
    /\ aresponse = [u \in AccountReqs |-> 0]
    /\ akind = [u \in AccountReqs |-> "none"]
    /\ atarget = [u \in AccountReqs |-> 0]
    /\ issued = {}

Init ==
    /\ InitExceptStore
    /\ EmptyStore
    /\ JWT_SECRET = "unset"
    /\ extraction = NoExtraction
    /\ listing = NoListing

\* One POST /employees request, from its arrival to its release
Intake(r) ==
    \/ PostEmployees(r)
    \/ GenerateContentReturns(r)
    \/ EmployeeFindUniqueReturns(r)
    \/ UserFindUniqueReturns(r)
    \/ HashReturns(r)
    \/ TxEmployeeCreateReturns(r)
    \/ TxUserCreateReturns(r)
    \/ SendMailReturns(r)
    \/ Released(r)

\* createUser requests, arriving one after the other (a register request
\* does the same to the store)
Account(u) ==
    \/ /\ \A v \in AccountReqs : v < u => apc[v] = "done"
       /\ \E body \in AccountBodies : createUser(u, body)
    \/ AccountFindUniqueReturns(u)
    \/ AccountCreateReturns(u)
    \/ AccountReleased(u)

\* Spec follows one intake request.  What runs beside it: the account
\* requests, and the other intake requests, which reach it only through
\* the rows their transactions commit.
Observed == CHOOSE r \in IntakeReqs : \A q \in IntakeReqs : r <= q

Next ==
    \/ Intake(Observed)
    \/ \E u \in AccountReqs : Account(u)
    \/ \E email \in Emails : ConcurrentProvision(email)

Spec == Init /\ [][Next]_vars

\* Resubmission: the client sends the same prompt again after it was
\* answered, the extraction returns the same array again, and nothing else
\* runs from the first submission on.  Account requests come before it.
AllAccountsSettled == \A u \in AccountReqs : apc[u] \in {"idle", "done"}
NoIntakeYet == \A r \in IntakeReqs : pc[r] = "idle"

FirstSubmission(r) ==
    /\ r = Observed
    /\ \/ AllAccountsSettled /\ PostEmployees(r)
       \/ GenerateContentReturns(r)

Resubmission(r) ==
    /\ r # Observed
    /\ Len(history) = r - Observed
    /\ \/ PostEmployees(r)
       \/ GenerateContentResolves(r, RawKinds \ Unparseable, {history[1].data})

Provisioning(r) ==
    \/ EmployeeFindUniqueReturns(r)
    \/ UserFindUniqueReturns(r)
    \/ HashReturns(r)
    \/ TxEmployeeCreateReturns(r)
    \/ TxUserCreateReturns(r)
    \/ SendMailReturns(r)
    \/ ReleasedKept(r)

NextResubmit ==
    \/ \E r \in IntakeReqs : FirstSubmission(r)
    \/ \E r \in IntakeReqs : Resubmission(r)
    \/ \E r \in IntakeReqs : Provisioning(r)
    \/ \E u \in AccountReqs : NoIntakeYet /\ Account(u)

SpecResubmit == Init /\ [][NextResubmit]_vars

\* The account endpoints in full on the seeded store, under every setting
\* of JWT_SECRET, with one intake request that bears a token login or
\* register handed out.
InitAccounts ==
    /\ InitExceptStore
    /\ SeededStore
    /\ JWT_SECRET \in JwtSecretSettings
    /\ extraction = NoExtraction
    /\ listing = NoListing

\* the Authorization header as sent: a token, at a time when it has
\* expired or not
Presented(token, expired) ==
    [kind |-> "jwt", userId |-> token.userId, secret |-> token.secret,
     expired |-> expired]

PostEmployeesBearing(r) ==
    /\ Quiet
    /\ pc[r] = "idle"
    /\ \E token \in issued, expired \in BOOLEAN, promptText \in Prompts \ {"undefined", ""} :
           /\ request' = [request EXCEPT ![r] = [token |-> Presented(token, expired),
                                                 prompt |-> promptText]]
           /\ authenticateToken(r, jwtVerify(token, VerifySecret, expired), promptText)
    /\ SameLocals
    /\ UNCHANGED <<ai, extraction, listing, history, storeVars, mailbox, logs, employeesData, idx,
                   hrmsResponses, accountVars>>

IntakeBearing(r) ==
    \/ PostEmployeesBearing(r)
    \/ GenerateContentResolves(r, {"ai.json_array"}, SeqsUpTo(EmployeeData, 1))
    \/ EmployeeFindUniqueReturns(r)
    \/ UserFindUniqueReturns(r)
    \/ HashReturns(r)
    \/ TxEmployeeCreateReturns(r)
    \/ TxUserCreateReturns(r)
    \/ SendMailReturns(r)
    \/ Released(r)

AccountArrives(u) ==
    \/ \E body \in AccountBodies : register(u, body)
    \/ \E body \in AccountBodies : createUser(u, body)
    \/ \E body \in LoginBodies : login(u, body)
    \/ \E body \in AccountBodies, id \in {row.id : row \in users} \cup {nextUserId} :
           updateUser(u, id, body)

AccountSteps(u) ==
    \/ AccountFindUniqueReturns(u)
    \/ AccountCreateReturns(u)
    \/ LoginFindUniqueReturns(u)
    \/ UpdateFindUniqueReturns(u)
    \/ UpdateEmailExistsReturns(u)
    \/ UserUpdateReturns(u)
    \/ AccountNext(u)

NextAccounts ==
    \/ \E u \in AccountReqs : AccountArrives(u)
    \/ \E u \in AccountReqs : AccountSteps(u)
    \/ IntakeBearing(Observed)

SpecAccounts == InitAccounts /\ [][NextAccounts]_vars

\* The extractor alone, on every text
InitExtract ==
    /\ InitExceptStore
    /\ EmptyStore
    /\ JWT_SECRET = "unset"
    /\ extraction \in {[text |-> t, done |-> FALSE, clean |-> <<>>] : t \in Texts}
    /\ listing = NoListing

NextExtract == ExtractJson

SpecExtract == InitExtract /\ [][NextExtract]_vars

\* The list endpoints alone, on tables of every size up to MaxRows
InitList ==
    /\ InitExceptStore
    /\ EmptyStore
    /\ JWT_SECRET = "unset"
    /\ extraction = NoExtraction
    /\ listing \in {[table |-> t, count |-> n, page |-> p, limit |-> l,
                     done |-> FALSE, data |-> <<>>] :
                        t \in {"employee", "user"}, n \in 0..MaxRows,
                        p \in PagesAsked, l \in LimitsAsked}

NextList == getEmployeesList \/ getUsersList

SpecList == InitList /\ [][NextList]_vars

\* Two POST /employees requests side by side: each handler runs from one await
\* to the next, in every order the event loop allows.  Both bear a valid
\* token and a prompt, the extraction returns an array, and what each
\* client was answered stays with it.
InitPair ==
    /\ InitExceptStore
    /\ ai = "client"
    /\ EmptyStore
    /\ JWT_SECRET = "unset"
    /\ extraction = NoExtraction
    /\ listing = NoListing

PostEmployeesAuthenticated(r) ==
    /\ Quiet
    /\ pc[r] = "idle"
    /\ \E token \in GoodTokens, promptText \in Prompts \ {"undefined", ""} :
           /\ request' = [request EXCEPT ![r] = [token |-> token, prompt |-> promptText]]
           /\ authenticateToken(r, token, promptText)
    /\ SameLocals
    /\ UNCHANGED <<ai, extraction, listing, history, storeVars, mailbox, logs, employeesData, idx,
                   hrmsResponses, accountVars>>

\* the response is out; the client keeps it, and the handler is over
Answered(r) ==
    /\ pc[r] = "replied"
    /\ pc' = [pc EXCEPT ![r] = "done"]
    /\ SameLocals
    /\ UNCHANGED <<ai, extraction, listing, history, storeVars, mailbox, logs, request, userId,
                   employeesData, idx, hrmsResponses, response, calls, accountVars>>

IntakePair(r) ==
    \/ PostEmployeesAuthenticated(r)
    \/ GenerateContentResolves(r, {"ai.json_array"}, Batches)
    \/ EmployeeFindUniqueReturns(r)
    \/ UserFindUniqueReturns(r)
    \/ HashReturns(r)
    \/ TxEmployeeCreateReturns(r)
    \/ TxUserCreateReturns(r)
    \/ SendMailReturns(r)
    \/ Answered(r)

NextPair == \E r \in IntakeReqs : IntakePair(r)

SpecPair == InitPair /\ [][NextPair]_vars

\* ------------------------------------------------------------- reading
\* the calls of request r that are for its record k, and their names
CallsFor(r, k) == SelectSeq(calls[r], LAMBDA c : c.i = k)
OpsFor(r, k) == [j \in 1..Len(CallsFor(r, k)) |-> CallsFor(r, k)[j].op]
HasCall(r, k, op) == \E j \in 1..Len(calls[r]) : calls[r][j].i = k /\ calls[r][j].op = op
IdsOf(r, k, op) ==
    {calls[r][j].id : j \in {n \in 1..Len(calls[r]) :
                               calls[r][n].i = k /\ calls[r][n].op = op}}

\* the records of request r whose createEmployeeRecordInHRMS call has begun,
\* and those for which it has returned an outcome
Started(r) == {k \in 1..Len(employeesData[r]) : k <= idx[r]}
Returned(r) == 1..Len(hrmsResponses[r])
OutcomeOf(r, k) == hrmsResponses[r][k].hrms_api_status
Alive(r) == pc[r] \notin {"idle", "done"}

\* what a call did besides looking up
Effects == {"generateRandomPassword", "bcryptjs.hash", "$transaction",
            "tx.employee.create", "employee.created", "tx.user.create",
            "user.created", "commit", "sendMail", "sendMail.resolved",
            "sendMail.rejected"}
NoEffect(r, k) == \A j \in 1..Len(calls[r]) : calls[r][j].i = k => calls[r][j].op \notin Effects

EmployeesMadeBy(r, k) == {row \in employees : row.id \in IdsOf(r, k, "employee.created")}
UsersMadeBy(r, k) == {row \in users : row.id \in IdsOf(r, k, "user.created")}

\* ------------------------------------------------------------------
\* C1: the employee row and the account row of one record are created
\* atomically: at every moment the rows committed by one
\* createEmployeeRecordInHRMS call are either none, or exactly one employee
\* and one account for the record's email with the account linked to the
\* employee; this includes a transaction that fails after its employee
\* insert because the same email was inserted concurrently.
C1_BothRowsOrNeither ==
    \A r \in IntakeReqs : \A k \in Started(r) :
        LET E == EmployeesMadeBy(r, k)
            U == UsersMadeBy(r, k)
        IN \/ E = {} /\ U = {}
           \/ \E e \in E, u \in U :
                 /\ E = {e} /\ U = {u}
                 /\ e.email = employeesData[r][k].email
                 /\ u.email = employeesData[r][k].email
                 /\ u.employee_id = e.id

\* a transaction failed part-way: its employee insert resolved, its account
\* insert hit the email of a concurrent insert, and the outcome is the error
C1_Witness_RolledBackPartWay ==
    \E r \in IntakeReqs : \E k \in Returned(r) :
        /\ HasCall(r, k, "employee.created")
        /\ HasCall(r, k, "rollback")
        /\ OutcomeOf(r, k).status = "error"
        /\ OutcomeOf(r, k).reason = "Unique constraint failed on the fields: (email)"
        /\ EmployeesMadeBy(r, k) = {}
        /\ \E u \in users : u.email = employeesData[r][k].email

LeftWithEmployee(first, email) ==
    \E j \in 1..Len(first.outcomes) :
        /\ first.outcomes[j].data.email = email
        /\ first.outcomes[j].hrms_api_status.status \in {"success", "partial_success", "skipped"}

LookedUpBefore(r, j) ==
    \E a \in 1..(j - 1) :
        /\ calls[r][a] = CallRec("employee.null", calls[r][j].i, 0)
        /\ \E b \in (a + 1)..(j - 1) :
              calls[r][b] = CallRec("user.null", calls[r][j].i, 0)

C3_OneRowPerEmail ==
    /\ \A email \in Emails :
          /\ Cardinality({e \in employees : e.email = email}) <= 1
          /\ Cardinality({u \in users : u.email = email}) <= 1
    /\ \A r \in IntakeReqs : \A j \in 1..Len(calls[r]) :
          calls[r][j].op \in {"tx.employee.create", "tx.user.create"}
          => LookedUpBefore(r, j)

\* the provisioner committed its two rows for one email while an account
\* without employee, made by an account request, exists for another
C3_Witness_RowsFromBothPaths ==
    \E r \in IntakeReqs : \E k \in Started(r) :
        /\ HasCall(r, k, "commit")
        /\ \E u \in users : u.employee_id = 0 /\ u.email # employeesData[r][k].email
        /\ \E e \in employees : e.email = employeesData[r][k].email

\* ------------------------------------------------------------------
\* C4 (as stated): a failure while provisioning one element (employee
\* lookup, account lookup, hashing, transaction, mail) never keeps the
\* following elements from being provisioned: once the array is parsed, the
\* answer is the 200 with one outcome per element.
C4_Original_EveryElementGetsAnOutcome ==
    \A r \in IntakeReqs :
        (pc[r] = "replied" /\ Len(employeesData[r]) > 0)
        => /\ response[r].status = 200
           /\ Len(response[r].body.processed_employees) = Len(employeesData[r])

\* ------------------------------------------------------------------
\* C5: when the transaction committed and sending the mail then threw, the
\* outcome is partial_success with email_sent false and both ids, and the
\* employee row and the account row with these ids exist.
C5_PartialSuccessKeepsRows ==
    \A r \in IntakeReqs : \A k \in Returned(r) :
        (HasCall(r, k, "commit") /\ HasCall(r, k, "sendMail.rejected"))
        => /\ OutcomeOf(r, k).status = "partial_success"
           /\ OutcomeOf(r, k).email_sent = "false"
           /\ OutcomeOf(r, k).employee_id \in IdsOf(r, k, "employee.created")
           /\ OutcomeOf(r, k).user_id \in IdsOf(r, k, "user.created")
           /\ \E e \in employees, u \in users :
                 /\ e.id = OutcomeOf(r, k).employee_id
                 /\ u.id = OutcomeOf(r, k).user_id
                 /\ e.email = employeesData[r][k].email
                 /\ u.email = employeesData[r][k].email
                 /\ u.employee_id = e.id

C5_Witness_MailThrewAfterCommit ==
    \E r \in IntakeReqs : \E k \in Returned(r) :
        /\ HasCall(r, k, "sendMail.rejected")
        /\ OutcomeOf(r, k).status = "partial_success"
        /\ pc[r] = "replied"

\* ------------------------------------------------------------------
\* C6: when the model's response carries no text or a text that is not
\* JSON, the request is answered 500 with error and details, and it made no
\* store call, created no row and sent no mail.
GotUnusableText(r) ==
    \E j \in 1..Len(calls[r]) : calls[r][j].op \in {"ai.no_text", "ai.not_json"}

C6_UnparseableIs500 ==
    \A r \in IntakeReqs :
        GotUnusableText(r)
        => /\ pc[r] = "replied"
           /\ response[r].status = 500
           /\ DOMAIN response[r].body = {"error", "details"}
           /\ Len(calls[r]) = 2
           /\ calls[r][1].op = "ai.generateContent"
           /\ hrmsResponses[r] = <<>>
           /\ \A m \in mailbox : m.password.by # r
           /\ \A u \in users : u.password.by # r

C6_Witness_UnparseableAnswered ==
    \E r \in IntakeReqs :
        /\ GotUnusableText(r)
        /\ response[r].status = 500
        /\ calls[r][2].op = "ai.not_json"

\* ------------------------------------------------------------------
\* C7: a request whose prompt is missing or empty calls neither the AI
\* service, nor the store, nor the mailer, and, once past the token check of
\* its route, is answered 400 {error: "Missing 'prompt' field in request."}.
C7_MissingPromptIs400 ==
    \A r \in IntakeReqs :
        (Alive(r) /\ request[r].prompt \in {"undefined", ""})
        => /\ pc[r] = "replied"
           /\ calls[r] = <<>>
           /\ request[r].token.kind = "valid"
              => response[r] = [status |-> 400,
                                body |-> [error |-> "Missing 'prompt' field in request."]]

C7_Witness_EmptyPrompt ==
    \E r \in IntakeReqs :
        /\ request[r].token.kind = "valid"
        /\ request[r].prompt = ""
        /\ response[r].status = 400
        /\ ai = "client"

\* ------------------------------------------------------------------
\* C8: with no AI credential configured, a request with a non-empty prompt
\* calls neither AI service, store nor mailer, leaves the store as it was,
\* and, once past the token check of its route, is answered 503.
C8_NoCredentialIs503 ==
    \A r \in IntakeReqs :
        (/\ Alive(r)
         /\ request[r].prompt \notin {"undefined", ""}
         /\ ai = "null")
        => /\ pc[r] = "replied"
           /\ request[r].token.kind = "valid" => response[r].status = 503
           /\ calls[r] = <<>>
           /\ hrmsResponses[r] = <<>>
           /\ \A u \in users : u.password.by # r
           /\ \A m \in mailbox : m.password.by # r

C8_Witness_Unconfigured ==
    \E r \in IntakeReqs :
        /\ ai = "null"
        /\ request[r].token.kind = "valid"
        /\ request[r].prompt \notin {"undefined", ""}
        /\ response[r].status = 503
        /\ calls[r] = <<>>

\* ------------------------------------------------------------------
\* C9: when the employee lookup finds nothing and the account lookup finds
\* an account, the outcome is error, the account is as it was, and the call
\* did nothing else: no employee, no password drawn or hashed, no mail.
C9_AccountWithoutEmployeeIsError ==
    \A r \in IntakeReqs : \A k \in Started(r) :
        (HasCall(r, k, "employee.null") /\ HasCall(r, k, "user.found"))
        => /\ k \in Returned(r)
           /\ OutcomeOf(r, k).status = "error"
           /\ OutcomeOf(r, k).employee_id = 0
           /\ OpsFor(r, k) = <<"employee.findUnique", "employee.null",
                               "user.findUnique", "user.found">>
           /\ NoEffect(r, k)
           /\ \A m \in mailbox : m.password # RandomPassword(r, k)
           /\ \A l \in logs : l.value # RandomPassword(r, k)
           /\ \E u \in users :
                 /\ u.id \in IdsOf(r, k, "user.found")
                 /\ u.email = employeesData[r][k].email
                 /\ u.password # bcryptHash(RandomPassword(r, k))

C9_Witness_AccountFound ==
    \E r \in IntakeReqs : \E k \in Returned(r) :
        /\ HasCall(r, k, "user.found")
        /\ OutcomeOf(r, k).message = "User already exists"
        /\ \A e \in employees : e.email # employeesData[r][k].email

\* ------------------------------------------------------------------
\* C10: when the employee lookup finds an employee, the outcome is skipped
\* with that employee's id, and the call did nothing else (no write, no
\* account lookup, no password, no mail), whatever the record's other
\* fields are.
C10_ExistingEmployeeIsSkipped ==
    \A r \in IntakeReqs : \A k \in Started(r) :
        HasCall(r, k, "employee.found")
        => /\ k \in Returned(r)
           /\ OutcomeOf(r, k).status = "skipped"
           /\ OutcomeOf(r, k).employee_id \in IdsOf(r, k, "employee.found")
           /\ \E e \in employees :
                 /\ e.id = OutcomeOf(r, k).employee_id
                 /\ e.email = employeesData[r][k].email
           /\ OpsFor(r, k) = <<"employee.findUnique", "employee.found">>
           /\ NoEffect(r, k)

\* an existing employee is skipped for a record whose start date does not
\* even parse
C10_Witness_SkippedDespiteBadDate ==
    \E r \in IntakeReqs : \E k \in Returned(r) :
        /\ HasCall(r, k, "employee.found")
        /\ OutcomeOf(r, k).status = "skipped"
        /\ employeesData[r][k].start_date = "unknown"

\* ------------------------------------------------------------------
\* C11: a 200 response has exactly as many entries in processed_employees
\* as the extraction returned records, and entry i carries the fields of
\* extracted record i; in particular for N records with pairwise distinct
\* emails.
C11_OneEntryPerRecordInOrder ==
    \A r \in IntakeReqs :
        (pc[r] = "replied" /\ response[r].status = 200)
        => /\ Len(response[r].body.processed_employees) = Len(employeesData[r])
           /\ \A i \in 1..Len(employeesData[r]) :
                 response[r].body.processed_employees[i].data = employeesData[r][i]

\* a 200 for two records with different emails and different outcomes
C11_Witness_TwoDistinctRecords ==
    \E r \in IntakeReqs :
        /\ pc[r] = "replied"
        /\ response[r].status = 200
        /\ Len(employeesData[r]) = 2
        /\ employeesData[r][1].email # employeesData[r][2].email
        /\ response[r].body.processed_employees[1].hrms_api_status.status = "success"
        /\ response[r].body.processed_employees[2].hrms_api_status.status = "error"

\* ------------------------------------------------------------------
\* C12: in every 200 response, summary.total_processed is the number of
\* extracted records, successful_creations the number of outcomes success
\* or partial_success, emails_sent the number of outcomes with email_sent
\* true, skipped and errors the numbers of outcomes skipped and error; one
\* new record whose mail is sent gives {1, 1, 1, 0, 0}.
OutcomesWith(r, field, values) ==
    Cardinality({k \in Returned(r) : OutcomeOf(r, k)[field] \in values})

C12_SummaryCountsOutcomes ==
    \A r \in IntakeReqs :
        (pc[r] = "replied" /\ response[r].status = 200)
        => LET summary == response[r].body.summary
           IN /\ summary.total_processed = Len(employeesData[r])
              /\ summary.successful_creations =
                     OutcomesWith(r, "status", {"success", "partial_success"})
              /\ summary.emails_sent = OutcomesWith(r, "email_sent", {"true"})
              /\ summary.skipped = OutcomesWith(r, "status", {"skipped"})
              /\ summary.errors = OutcomesWith(r, "status", {"error"})
              /\ (Len(employeesData[r]) = 1 /\ HasCall(r, 1, "sendMail.resolved"))
                 => summary = [total_processed |-> 1, successful_creations |-> 1,
                               emails_sent |-> 1, skipped |-> 0, errors |-> 0]

\* one new record, created and mailed
C12_Witness_OneNewRecord ==
    \E r \in IntakeReqs :
        /\ pc[r] = "replied"
        /\ response[r].status = 200
        /\ Len(employeesData[r]) = 1
        /\ HasCall(r, 1, "sendMail.resolved")
        /\ response[r].body.summary.successful_creations = 1
        /\ response[r].body.summary.emails_sent = 1

\* ------------------------------------------------------------------
\* C13 (as stated): whenever extraction and parsing succeeded, the request
\* is answered 200, whatever happens to the single records; never a 4xx or
\* 5xx.
Parsed(r) ==
    \E j \in 1..Len(calls[r]) : calls[r][j].op \in RawKinds \ Unparseable

C13_Original_ParsedIsAnswered200 ==
    \A r \in IntakeReqs :
        (pc[r] = "replied" /\ Parsed(r)) => response[r].status = 200

\* ------------------------------------------------------------------
\* C14: in every reachable state the password of every account row,
\* whether written by provisioning, register, createUser or updateUser, is
\* the hash of a credential and never a plaintext credential.
C14_OnlyHashesStored ==
    \A row \in users :
        /\ row.password.form = "bcrypt"
        /\ \A m \in mailbox : row.password # m.password
        /\ \A u \in AccountReqs : row.password # GivenPassword(u)

\* accounts written by provisioning and by updateUser with a new password
C14_Witness_ProvisionedAndUpdated ==
    /\ \E row \in users : row.employee_id # 0 /\ row.password.by > 0
    /\ \E u \in AccountReqs :
          /\ akind[u] = "updateUser"
          /\ aresponse[u] = 200
          /\ abody[u].password # ""

\* ------------------------------------------------------------------
\* C15: POST /employees runs its handler only for a request whose token
\* verifies: a request with no token, or with a token that is invalid or
\* expired, is answered 401 by authenticateToken, the handler is not
\* entered, and nothing is extracted, written or mailed.
C15_Unauthenticated401 ==
    \A r \in IntakeReqs :
        (Alive(r) /\ request[r].token.kind \in {"missing", "invalid"})
        => /\ pc[r] = "replied"
           /\ response[r].status = 401
           /\ response[r].body.error =
                  IF request[r].token.kind = "missing"
                  THEN "Access token missing" ELSE "Invalid or expired token"
           /\ userId[r] = 0
           /\ calls[r] = <<>>
           /\ hrmsResponses[r] = <<>>
           /\ \A u \in users : u.password.by # r
           /\ \A m \in mailbox : m.password.by # r

\* a token that does not verify, with a prompt and a configured AI client
C15_Witness_InvalidToken ==
    \E r \in IntakeReqs :
        /\ request[r].token.kind = "invalid"
        /\ request[r].prompt \notin {"undefined", ""}
        /\ ai = "client"
        /\ response[r].status = 401

\* ------------------------------------------------------------------
\* C16: every employee row created by provisioning has created_by equal to
\* the user id of the authenticated caller, the userId carried by the token
\* login or register issued to that account; the fallback id 1 stands there
\* only when there is no authenticated caller, which the route excludes.
C16_CreatedByIsTheCaller ==
    /\ \A token \in issued : \E u \in users : u.id = token.userId
    /\ \A r \in IntakeReqs :
          /\ txEmployee[r] # NoRow
             => /\ request[r].token \in {Presented(token, FALSE) : token \in issued}
                /\ txEmployee[r].created_by = request[r].token.userId
          /\ \A k \in Started(r) : \A e \in EmployeesMadeBy(r, k) :
                /\ request[r].token \in {Presented(token, FALSE) : token \in issued}
                /\ e.created_by = request[r].token.userId

\* an employee row created for a caller other than the administrator
C16_Witness_CreatedByRegisteredUser ==
    \E r \in IntakeReqs : \E k \in Started(r) : \E e \in EmployeesMadeBy(r, k) :
        /\ e.created_by = 2
        /\ \E u \in users : u.id = 2 /\ u.employee_id = 0

\* ------------------------------------------------------------------
\* C17 (as stated): a token returned by login or register is accepted by
\* authenticateToken on later requests until it expires, under every
\* setting of JWT_SECRET, unset included: the request that bears it enters
\* the handler as that user.
C17_Original_IssuedTokenIsAccepted ==
    \A r \in IntakeReqs :
        (/\ Alive(r)
         /\ request[r].token \in {Presented(token, FALSE) : token \in issued})
        => /\ userId[r] = request[r].token.userId
           /\ response[r].status # 401

\* ------------------------------------------------------------------
\* C18: extractJsonFromMarkdown: if the text contains a block delimited by
\* triple backticks (optionally tagged json), the result is the trimmed
\* interior of the first such block; otherwise, an opening fence without a
\* closing one included, the result is the trimmed whole text.
FencePositions(t) == {p \in 1..Len(t) : IsFenceAt(t, p)}

\* where the interior of a block opened at p begins: after the tag, if any
InteriorStart(t, p) ==
    IF p + 3 <= Len(t) /\ t[p + 3] = "json" THEN p + 4 ELSE p + 3

\* the opening fences that have a closing fence after them
BlockOpenings(t) ==
    {p \in FencePositions(t) : \E c \in FencePositions(t) : c >= InteriorStart(t, p)}

Least(S) == CHOOSE n \in S : \A m \in S : n <= m
Greatest(S) == CHOOSE n \in S : \A m \in S : n >= m

FirstBlockInterior(t) ==
    LET p == Least(BlockOpenings(t))
        c == Least({q \in FencePositions(t) : q >= InteriorStart(t, p)})
    IN SubSeq(t, InteriorStart(t, p), c - 1)

\* a text without the whitespace at its two ends
Trimmed(s) ==
    LET inked == {i \in 1..Len(s) : s[i] # " "}
    IN IF inked = {} THEN <<>> ELSE SubSeq(s, Least(inked), Greatest(inked))

C18_FirstBlockOrWholeText ==
    extraction.done
    => extraction.clean =
           IF BlockOpenings(extraction.text) # {}
           THEN Trimmed(FirstBlockInterior(extraction.text))
           ELSE Trimmed(extraction.text)

\* two blocks, the first one tagged json: the first one's interior
C18_Witness_FirstOfTwoBlocks ==
    /\ extraction.done
    /\ extraction.text = <<"tick", "tick", "tick", "json", "x",
                           "tick", "tick", "tick", "tick", "tick", "tick",
                           "tick", "tick", "tick">>
    /\ extraction.clean = <<"x">>

\* ------------------------------------------------------------------
\* C19 (as stated): the employee list and the user list return at most
\* limit items per page, where limit defaults to 10 and never exceeds 100:
\* a request with a limit above 100 is served at most 100 items.
C19_Original_AtMost100Items ==
    listing.done
    => /\ Len(listing.data) <= limitNum(listing.limit)
       /\ Len(listing.data) <= DocumentedMaxLimit

\* ------------------------------------------------------------------
\* C20: createUser and register with an email that already belongs to an
\* account answer 409 and leave the store unchanged; with name, email or
\* password missing they answer 400 at once, before any store call; and
\* no two accounts ever have the same email.
CreatesAccount(kind) == kind \in {"createUser", "register"}

MissingField(body) == body.name = "" \/ body.email = "" \/ body.password = ""

C20_ArrivalWithMissingField(u) ==
    /\ apc[u] = "idle"
    /\ apc'[u] # "idle"
    /\ CreatesAccount(akind'[u])
    /\ MissingField(abody'[u])

C20_LookupFindsAccount(u) ==
    /\ apc[u] = "user.findUnique"
    /\ apc'[u] # "user.findUnique"
    /\ CreatesAccount(akind[u])
    /\ \E row \in users : row.email = abody[u].email

C20_Step ==
    /\ \A u \in AccountReqs :
          /\ C20_ArrivalWithMissingField(u)
                => /\ aresponse'[u] = 400
                   /\ apc'[u] = "replied"
                   /\ UNCHANGED storeVars
          /\ C20_LookupFindsAccount(u)
                => /\ aresponse'[u] = 409
                   /\ apc'[u] = "replied"
                   /\ UNCHANGED storeVars
    /\ \A a, b \in users' : a.email = b.email => a = b

C20_DuplicateEmailIs409 == [][C20_Step]_vars

\* a register request was answered 409 for the email of an account that an
\* earlier createUser or register request made
C20_Witness_Register409 ==
    \E u \in AccountReqs :
        /\ apc[u] = "replied"
        /\ akind[u] = "register"
        /\ aresponse[u] = 409
        /\ \E row \in users : /\ row.email = abody[u].email
                              /\ row.employee_id = 0
                              /\ row.id # 1

\* ------------------------------------------------------------------
\* C21 (as stated): when a create of one record's transaction is rejected
\* by the store, the rejection is caught inside createEmployeeRecordInHRMS
\* and becomes that record's outcome error with the reason in its message,
\* the loop goes on with the remaining records, and the request is
\* answered 200.
TransactionFailed(r, k) == HasCall(r, k, "rollback")

C21_CaughtAsErrorOutcome(r, k) ==
    /\ k \in Returned(r)
    /\ OutcomeOf(r, k).status = "error"
    /\ OutcomeOf(r, k).message = "Failed to create employee and user"
    /\ OutcomeOf(r, k).reason # ""
    /\ k < Len(employeesData[r]) => k + 1 \in Started(r)

C21_Original_FailedTransactionStill200 ==
    \A r \in IntakeReqs : \A k \in Started(r) :
        TransactionFailed(r, k)
        => /\ C21_CaughtAsErrorOutcome(r, k)
           /\ pc[r] = "replied" => response[r].status = 200

\* the part that holds: the failed transaction itself is never what ends
\* the batch
C21_FailedTransactionIsAnOutcome ==
    \A r \in IntakeReqs : \A k \in Started(r) :
        TransactionFailed(r, k) => C21_CaughtAsErrorOutcome(r, k)

\* ------------------------------------------------------------------
\* C22: within one intake request the records are provisioned one at a
\* time in array order: every call made for a record (lookup, hash,
\* create, mail) comes after all calls of the records before it, and is
\* made only when the record before it has its outcome.
C22_OneRecordAtATime ==
    \A r \in IntakeReqs :
        \A j \in 1..Len(calls[r]) :
            LET k == calls[r][j].i
            IN k > 0
               => /\ k - 1 <= Len(hrmsResponses[r])
                  /\ k <= idx[r]
                  /\ \A h \in 1..j : calls[r][h].i <= k

\* the second record is in its transaction, after the first one's mail
\* attempt failed and gave it its outcome
C22_Witness_SecondAfterFirstMail ==
    \E r \in IntakeReqs :
        /\ Len(employeesData[r]) = 2
        /\ pc[r] = "tx.user.create"
        /\ idx[r] = 2
        /\ HasCall(r, 1, "sendMail.rejected")
        /\ OutcomeOf(r, 1).status = "partial_success"

\* ------------------------------------------------------------------
\* C25 (as stated): whenever an intake request is answered 500, that request
\* has created no employee row and no account row and has sent no welcome
\* email: a 500 is only ever produced before any record is provisioned.
MailsSentBy(r, k) ==
    {m \in mailbox : m.to = employeesData[r][k].email /\ m.password = RandomPassword(r, k)}

C25_Original_500MeansNothingCreated ==
    \A r \in IntakeReqs :
        (pc[r] = "replied" /\ response[r].status = 500)
        => \A k \in Started(r) :
               /\ EmployeesMadeBy(r, k) = {}
               /\ UsersMadeBy(r, k) = {}
               /\ MailsSentBy(r, k) = {}
               /\ ~HasCall(r, k, "sendMail")

\* ------------------------------------------------------------------
\* C26 (as stated): the generated plaintext credential goes only to the
\* hasher and to the mail addressed to the new employee: it is in no store
\* row, in no HTTP response body and in no log output.
IsPlaintext(p) == p.form = "plain"

OutcomeValues(o) ==
    {o.status, o.message, o.reason, o.email_sent}

C26_Original_PlaintextOnlyHashedAndMailed ==
    /\ \A row \in users : ~IsPlaintext(row.password)
    /\ \A entry \in logs : ~IsPlaintext(entry.value)
    /\ \A r \in IntakeReqs : \A k \in Returned(r) :
           /\ "password" \notin DOMAIN OutcomeOf(r, k)
           /\ "Generated password" \notin OutcomeValues(OutcomeOf(r, k))
    /\ \A r \in IntakeReqs : \A k \in Started(r) :
           \A m \in mailbox :
               m.password = RandomPassword(r, k) => m.to = employeesData[r][k].email

\* the part that holds: no store row, no response body, and only the mail
\* to the new employee
C26_PlaintextNotStoredNorAnswered ==
    /\ \A row \in users : ~IsPlaintext(row.password)
    /\ \A r \in IntakeReqs : \A k \in Returned(r) :
           "password" \notin DOMAIN OutcomeOf(r, k)
    /\ \A r \in IntakeReqs : \A k \in Started(r) :
           \A m \in mailbox :
               m.password = RandomPassword(r, k) => m.to = employeesData[r][k].email

\* ------------------------------------------------------------------
\* C27: a welcome email is attempted for a record only after the record's
\* transaction has committed, and exactly once: there is no mail send for a
\* record whose outcome is skipped or error, and none is repeated after a
\* failure.
PositionsOf(r, k, op) ==
    {j \in 1..Len(calls[r]) : calls[r][j].i = k /\ calls[r][j].op = op}

C27_MailOnceAfterCommit ==
    \A r \in IntakeReqs : \A k \in Started(r) :
        /\ Cardinality(PositionsOf(r, k, "sendMail")) <= 1
        /\ Cardinality(MailsSentBy(r, k)) <= 1
        /\ \A s \in PositionsOf(r, k, "sendMail") :
              /\ \E c \in PositionsOf(r, k, "commit") : c < s
              /\ EmployeesMadeBy(r, k) # {}
              /\ UsersMadeBy(r, k) # {}
        /\ (k \in Returned(r) /\ OutcomeOf(r, k).status \in {"skipped", "error"})
              => /\ PositionsOf(r, k, "sendMail") = {}
                 /\ MailsSentBy(r, k) = {}
        /\ (k \in Returned(r) /\ OutcomeOf(r, k).status \in {"success", "partial_success"})
              => Cardinality(PositionsOf(r, k, "sendMail")) = 1

\* a batch is answered: the mail of its first record failed after the
\* commit and was not sent again, its second record ended in error
C27_Witness_FailedMailNotRepeated ==
    \E r \in IntakeReqs :
        /\ pc[r] = "replied"
        /\ response[r].status = 200
        /\ Len(employeesData[r]) = 2
        /\ OutcomeOf(r, 1).status = "partial_success"
        /\ HasCall(r, 1, "sendMail.rejected")
        /\ OutcomeOf(r, 2).status = "error"
        /\ HasCall(r, 2, "rollback")

\* ------------------------------------------------------------------
\* C28: in every 200 response each outcome status is one of success,
\* partial_success, skipped, error; email_sent is true exactly for the
\* status success; user_id is present exactly for success and
\* partial_success; and the summary satisfies successful_creations +
\* skipped + errors = total_processed and emails_sent <=
\* successful_creations.
C28_WellFormedOutcome(o) ==
    /\ o.status \in {"success", "partial_success", "skipped", "error"}
    /\ o.email_sent = "true" <=> o.status = "success"
    /\ o.user_id # 0 <=> o.status \in {"success", "partial_success"}

C28_WellFormed200 ==
    \A r \in IntakeReqs :
        (pc[r] = "replied" /\ response[r].status = 200)
        => LET body == response[r].body
               s == body.summary
           IN /\ \A k \in 1..Len(body.processed_employees) :
                     C28_WellFormedOutcome(body.processed_employees[k].hrms_api_status)
              /\ s.successful_creations + s.skipped + s.errors = s.total_processed
              /\ s.emails_sent <= s.successful_creations

\* a 200 with a partial success beside an error
C28_Witness_PartialSuccessAndError ==
    \E r \in IntakeReqs :
        /\ pc[r] = "replied"
        /\ response[r].status = 200
        /\ response[r].body.summary.successful_creations = 1
        /\ response[r].body.summary.emails_sent = 0
        /\ response[r].body.summary.errors = 1

\* ------------------------------------------------------------------
\* C29 (as stated): when the extracted array contains the same new email
\* more than once, the first occurrence is provisioned (one employee, one
\* account, one mail attempt) and every later occurrence is reported
\* skipped with the id of the employee the first one created; the batch
\* creates exactly one employee and one account for that email.
SameEmail(r, k1, k2) == employeesData[r][k1].email = employeesData[r][k2].email

FirstOccurrence(r, k) == \A h \in 1..(k - 1) : ~SameEmail(r, h, k)

\* both lookups of the record found nothing: its email was new
FoundNew(r, k) == HasCall(r, k, "employee.null") /\ HasCall(r, k, "user.null")

Provisioned(r, k) ==
    /\ k \in Returned(r)
    /\ OutcomeOf(r, k).status \in {"success", "partial_success"}

SkippedAs(r, k2, k1) ==
    /\ OutcomeOf(r, k2).status = "skipped"
    /\ OutcomeOf(r, k2).employee_id = OutcomeOf(r, k1).employee_id

OneRowEach(email) ==
    /\ Cardinality({row \in employees : row.email = email}) = 1
    /\ Cardinality({row \in users : row.email = email}) = 1

C29_Original_LaterOccurrencesSkipped ==
    \A r \in IntakeReqs : \A k1, k2 \in Returned(r) :
        (k1 < k2 /\ SameEmail(r, k1, k2) /\ FirstOccurrence(r, k1) /\ FoundNew(r, k1))
        => /\ Provisioned(r, k1)
           /\ Cardinality(PositionsOf(r, k1, "sendMail")) = 1
           /\ SkippedAs(r, k2, k1)
           /\ OneRowEach(employeesData[r][k1].email)

\* C29 (amended): when an occurrence of an email in the array is
\* provisioned (its outcome is success or partial_success), every later
\* occurrence of that email in the same batch creates, hashes and mails
\* nothing and, when it gets an outcome, is reported skipped with the id of
\* the employee that occurrence created; there is then exactly one employee
\* and one account for that email.  An occurrence that ended in error
\* leaves the email new for the next one.
C29_SkippedAfterProvisionedOccurrence ==
    \A r \in IntakeReqs : \A k1 \in Returned(r) : \A k2 \in Started(r) :
        (k1 < k2 /\ SameEmail(r, k1, k2) /\ Provisioned(r, k1))
        => /\ NoEffect(r, k2)
           /\ k2 \in Returned(r) => SkippedAs(r, k2, k1)
           /\ OneRowEach(employeesData[r][k1].email)
           /\ Cardinality(EmployeesMadeBy(r, k1)) = 1
           /\ Cardinality(UsersMadeBy(r, k1)) = 1

\* a batch naming one new email twice is answered: created and mailed for
\* the first, skipped with that employee's id for the second
C29_Witness_SecondOccurrenceSkipped ==
    \E r \in IntakeReqs :
        /\ pc[r] = "replied"
        /\ response[r].status = 200
        /\ Len(employeesData[r]) = 2
        /\ SameEmail(r, 1, 2)
        /\ FoundNew(r, 1)
        /\ OutcomeOf(r, 1).status = "success"
        /\ SkippedAs(r, 2, 1)

\* ------------------------------------------------------------------
\* C30 (as stated): a record whose start_date cannot be parsed as a date
\* yields the outcome error, with no employee row, no account row and no
\* email, and the remaining records of the batch are still provisioned.
\* (Read for a record with a new email: one that is found by the employee
\* lookup is skipped before its date is looked at.)
BadDate(r, k) == ParseDate(employeesData[r][k].start_date) = "Invalid Date"

C30_NothingCreatedForBadDate(r, k) ==
    /\ ~HasCall(r, k, "employee.created")
    /\ EmployeesMadeBy(r, k) = {}
    /\ UsersMadeBy(r, k) = {}
    /\ PositionsOf(r, k, "sendMail") = {}
    /\ MailsSentBy(r, k) = {}
    /\ (k \in Returned(r) /\ FoundNew(r, k))
          => /\ OutcomeOf(r, k).status = "error"
             /\ OutcomeOf(r, k).reason = "Invalid value for argument joining_date"
             /\ k < Len(employeesData[r]) => k + 1 \in Started(r)

C30_Original_BadDateIsErrorAndBatchGoesOn ==
    \A r \in IntakeReqs : \A k \in Started(r) :
        BadDate(r, k)
        => /\ C30_NothingCreatedForBadDate(r, k)
           /\ (pc[r] = "replied" /\ k \in Returned(r))
                 => /\ response[r].status = 200
                    /\ Len(hrmsResponses[r]) = Len(employeesData[r])

\* the part that holds: the record itself
C30_BadDateCreatesNothing ==
    \A r \in IntakeReqs : \A k \in Started(r) :
        BadDate(r, k) => C30_NothingCreatedForBadDate(r, k)

\* ------------------------------------------------------------------
\* C24: when two intake requests provision the same new email concurrently,
\* under every interleaving at most one of them reports success or
\* partial_success for that email, at most one welcome email carrying a
\* credential is sent to it, and the other reports skipped or error.
Records == {<<r, k>> : r \in IntakeReqs, k \in 1..MaxBatch}

ReturnedFor(email) ==
    {rk \in Records : /\ rk[2] \in Returned(rk[1])
                      /\ employeesData[rk[1]][rk[2]].email = email}

ProvisionedFor(email) == {rk \in ReturnedFor(email) : Provisioned(rk[1], rk[2])}

C24_OneWinnerPerEmail ==
    \A email \in Emails :
        /\ Cardinality(ProvisionedFor(email)) <= 1
        /\ Cardinality({m \in mailbox : m.to = email}) <= 1
        /\ \A won \in ProvisionedFor(email) :
               \A rk \in ReturnedFor(email) \ {won} :
                   OutcomeOf(rk[1], rk[2]).status \in {"skipped", "error"}

\* both requests found the email new, both opened their transaction; one
\* committed and mailed, the other was rejected by the store
C24_Witness_RaceLostInTransaction ==
    \E r, q \in IntakeReqs :
        /\ r # q
        /\ pc[r] = "done" /\ pc[q] = "done"
        /\ employeesData[r] # <<>> /\ employeesData[q] # <<>>
        /\ employeesData[r][1].email = employeesData[q][1].email
        /\ FoundNew(r, 1) /\ FoundNew(q, 1)
        /\ OutcomeOf(r, 1).status = "success"
        /\ OutcomeOf(q, 1).status = "error"
        /\ OutcomeOf(q, 1).reason = "Unique constraint failed on the fields: (email)"

\* ------------------------------------------------------------------
\* C23: two intake requests running concurrently on disjoint sets of emails
\* do not interfere.  What a request running alone, or after the other,
\* gives for a record depends on the record, on the earlier records of the
\* same array, and on what the store and the mail transport did with it:
DisjointEmails ==
    \A r, q \in IntakeReqs :
        r # q => \A k \in 1..Len(employeesData[r]), h \in 1..Len(employeesData[q]) :
                     employeesData[r][k].email # employeesData[q][h].email

SerialStatus(r, k) ==
    IF \E h \in 1..(k - 1) : SameEmail(r, h, k) /\ Provisioned(r, h) THEN "skipped"
    ELSE IF BadDate(r, k) \/ HasCall(r, k, "Can't reach database server") THEN "error"
    ELSE IF HasCall(r, k, "sendMail.rejected") THEN "partial_success"
    ELSE "success"

CommitsOf(r) == {k \in 1..Len(employeesData[r]) : HasCall(r, k, "commit")}

\* the rows a serial run leaves, without their ids
SerialEmployees ==
    {[email |-> employeesData[rk[1]][rk[2]].email,
      joining_date |-> ParseDate(employeesData[rk[1]][rk[2]].start_date),
      created_by |-> IF userId[rk[1]] # 0 THEN userId[rk[1]] ELSE 1] :
        rk \in {x \in Records : x[2] \in Returned(x[1]) /\ Provisioned(x[1], x[2])}}

WithoutId(row) ==
    [email |-> row.email, joining_date |-> row.joining_date, created_by |-> row.created_by]

AllDone == \A r \in IntakeReqs : pc[r] = "done"

\* the ids a serial run gives when request first runs first: every commit
\* takes the next employee id and the next account id
SerialIdOf(first, r, k) ==
    (IF r = first THEN 0 ELSE Cardinality(CommitsOf(first)))
        + Cardinality({h \in CommitsOf(r) : h <= k})

SameStatusesAndRows ==
    /\ \A r \in IntakeReqs : \A k \in Returned(r) :
           /\ OutcomeOf(r, k).status = SerialStatus(r, k)
           /\ ~HasCall(r, k, "Unique constraint failed on the fields: (email)")
           /\ Provisioned(r, k)
                 => \E e \in employees, u \in users :
                        /\ e.id = OutcomeOf(r, k).employee_id
                        /\ u.id = OutcomeOf(r, k).user_id
                        /\ e.email = employeesData[r][k].email
                        /\ u.email = employeesData[r][k].email
                        /\ u.employee_id = e.id
    /\ AllDone
          => /\ {WithoutId(e) : e \in employees} = SerialEmployees
             /\ Cardinality(employees) = Cardinality(SerialEmployees)
             /\ Cardinality(users) = Cardinality(SerialEmployees)
             /\ \A u \in users : \E e \in employees : u.employee_id = e.id /\ u.email = e.email

\* C23 (as stated): under every interleaving each request's per-record
\* outcomes and the final store contents are the same as if the two
\* requests had run one after the other.
C23_Original_SameAsSerial ==
    DisjointEmails
    => /\ SameStatusesAndRows
       /\ AllDone
             => \E first \in IntakeReqs :
                    \A r \in IntakeReqs : \A k \in CommitsOf(r) :
                        /\ IdsOf(r, k, "employee.created") = {SerialIdOf(first, r, k)}
                        /\ IdsOf(r, k, "user.created") = {SerialIdOf(first, r, k)}

\* C23 (amended): under every interleaving each request's per-record
\* outcomes and the final store contents are the same as if the two
\* requests had run one after the other, except for the ids the store
\* assigns: the employee_id and user_id of the rows and of the outcomes
\* follow the order in which the inserts of the two requests interleave.
C23_SameAsSerialExceptIds == DisjointEmails => SameStatusesAndRows

\* both requests are answered 200 for one new record each, and their
\* inserts crossed: the one with the lower employee id has the higher
\* account id
C23_Witness_InsertsCrossed ==
    \E r, q \in IntakeReqs :
        /\ r # q
        /\ AllDone
        /\ DisjointEmails
        /\ response[r].status = 200 /\ response[q].status = 200
        /\ Len(employeesData[r]) = 1 /\ Len(employeesData[q]) = 1
        /\ Provisioned(r, 1) /\ Provisioned(q, 1)
        /\ OutcomeOf(r, 1).employee_id < OutcomeOf(q, 1).employee_id
        /\ OutcomeOf(r, 1).user_id > OutcomeOf(q, 1).user_id

====
